---- MODULE Spec2Model ----
(***************************************************************************)
(* A model of the fund advisor's factor / scoring / pre-filter engine and  *)
(* of the batch analysis workflow that drives it.                          *)
(*                                                                         *)
(* Numbers.  Every percentage, ratio, scale (in 亿) and tenure (in years)  *)
(* is an integer count of hundredths: 25.01 is 2501, -40.0 is -4000, a     *)
(* scale of 2.0 亿 is 200.  Python's None is the value NoneV; a dict is a  *)
(* function whose DOMAIN is the set of keys that are present.              *)
(***************************************************************************)
EXTENDS Integers, Sequences, FiniteSets, TLC

VARIABLES
    pfOp,       \* pre-filter: the operation last called ("idle" before any call)
    pfArgs,     \* pre-filter: the arguments of that call
    pfOut,      \* pre-filter: what the call returned
    fcOp,       \* factor calculator: the operation last called
    fcArgs,     \* factor calculator: the arguments of that call
    fcOut,      \* factor calculator: what the call returned
    scOp,       \* scoring model: the operation last called
    scArgs,     \* scoring model: the arguments of that call
    scOut,      \* scoring model: what the call returned
    wfPc,       \* _analyze_fund_type: where the calling thread stands
    wfFunds,    \* funds_to_analyze: per row, what the fund's data sources hold
    wfFundType, \* fund_type, the category being analysed
    wfLimit,    \* limit, the most funds to analyse
    wfBenchmark,     \* self.benchmark_data
    wfFutures,  \* futures: the fund codes submitted to the executor, in order
    wfTasks,    \* per fund code, the state and the result of its task
    wfYielded,  \* the futures as_completed has handed out
    wfFundsFactors,  \* funds_factors and funds_data, as the sequence of their items
    wfCompleted,     \* completed_count
    wfFailed,        \* failed_count
    wfPassedFunds,   \* passed_funds: the fund codes filter_batch let through, in order
    wfResult,   \* result: top_funds, scores_df, statistics
    gfPc,       \* _get_fund_factors: the statement the call stands before
    gfEnv,      \* _get_fund_factors: use_cache and what each collector answers
    gfCache,    \* the storage: per kind of data, the entry of the fund
    gfLocals,   \* _get_fund_factors: nav_data, fund_info, current_holdings
    gfCalls,    \* the calls made on the storage and the collectors, in order
    raPc,       \* run_full_analysis: the step the call stands before
    raFundTypes, \* run_full_analysis: the fund_types still to go through
    raFunds,    \* all_funds, then filtered_funds
    raCategorized, \* categorized
    raResults, \* results: top_funds and statistics per fund type
    pmOp,       \* portfolio: the operation last called
    pmArgs,     \* portfolio: the arguments of that call
    pmOut,      \* portfolio: what the call returned
    pmPortfolio, \* PortfolioManager.portfolio
    pmTradeHistory, \* PortfolioManager.trade_history
    pmFile,     \* the portfolio and trade history files
    dePortfolio, \* whether DecisionEngine.portfolio is the manager's Portfolio object
    pmToday,   \* date.today(), in days
    rcOp,       \* risk controller: the operation last called
    rcArgs,     \* risk controller: the arguments of that call
    rcOut,      \* risk controller: what the call returned
    rcBreaker,  \* _circuit_breaker_active, _circuit_breaker_reason, _circuit_breaker_until
    rcNow      \* datetime.now(), in hours

pfVars == <<pfOp, pfArgs, pfOut>>
fcVars == <<fcOp, fcArgs, fcOut>>
scVars == <<scOp, scArgs, scOut>>
gfVars == <<gfPc, gfEnv, gfCache, gfLocals, gfCalls>>
wfVars == <<wfPc, wfFunds, wfFundType, wfLimit, wfBenchmark, wfFutures, wfTasks, wfYielded,
            wfFundsFactors, wfCompleted, wfFailed, wfPassedFunds, wfResult>>
raVars == <<raPc, raFundTypes, raFunds, raCategorized, raResults>>
pmVars == <<pmOp, pmArgs, pmOut, pmPortfolio, pmTradeHistory, pmFile, dePortfolio, pmToday>>
rcVars == <<rcOp, rcArgs, rcOut, rcBreaker, rcNow>>
vars == <<pfOp, pfArgs, pfOut, fcOp, fcArgs, fcOut, scOp, scArgs, scOut,
          wfPc, wfFunds, wfFundType, wfLimit,
          wfBenchmark, wfFutures, wfTasks, wfYielded, wfFundsFactors, wfCompleted,
          wfFailed, wfPassedFunds, wfResult,
          gfPc, gfEnv, gfCache, gfLocals, gfCalls,
          raPc, raFundTypes, raFunds, raCategorized, raResults,
          pmOp, pmArgs, pmOut, pmPortfolio, pmTradeHistory, pmFile, dePortfolio, pmToday,
          rcOp, rcArgs, rcOut, rcBreaker, rcNow>>

-----------------------------------------------------------------------------
(* Python values *)

NoneV == 0 - 1000000

\* dict.get(key, default)
Get(d, key, default) == IF key \in DOMAIN d THEN d[key] ELSE default

\* truthiness of a number-or-None: None and 0 are falsy
Truthy(v) == v # NoneV /\ v # 0

\* what a rule's check hands back: a (passed, reason) pair, or an exception
Ret(b) == [raised |-> FALSE, passed |-> b]
Raise == [raised |-> TRUE, passed |-> FALSE]

\* f'{v:.2f}' raises TypeError on None
Fmt(v, result) == IF v = NoneV THEN Raise ELSE result

-----------------------------------------------------------------------------
(* src/processor/fund_processor.py                                         *)
(*                                                                         *)
(* A raw NAV table is [date_col, nav_col, acc_col, rows]: the names of its *)
(* columns ("" when the table has no such column) and its rows             *)
(* [date, nav, acc].  A date is a day number, a nav is in units of 0.0001, *)
(* NaN is a null cell.  A table with no rows is an empty DataFrame.        *)

NaN == 0 - 3000000

\* a cell whose text is neither a number nor a date ("--", "abc", ...)
Unparsable == 0 - 4000000

\* pd.to_numeric(column, errors='coerce'): a cell that does not parse becomes NaN
to_numeric(cell) == IF cell = Unparsable THEN NaN ELSE cell

\* pd.to_datetime(column), with the default errors='raise': raises on the first
\* cell that does not parse; a null cell becomes NaT, which is null
to_datetime_raises(rows) == \E i \in DOMAIN rows : rows[i].date = Unparsable

\* the column names the normaliser recognises; the localized labels are written
\* in ASCII: jingzhi_riqi is 净值日期, riqi is 日期, danwei_jingzhi is 单位净值,
\* leiji_jingzhi is 累计净值
date_cols == {"jingzhi_riqi", "date", "riqi", "FSRQ", "x"}
nav_cols == {"danwei_jingzhi", "nav", "DWJZ", "y"}
acc_nav_cols == {"leiji_jingzhi", "acc_nav", "LJJZ"}

\* result.dropna(subset=['date', 'nav'])
NotNull(row) == row.date # NaN /\ row.nav # NaN
dropna(rows) == SelectSeq(rows, NotNull)

\* result.drop_duplicates(subset=['date']): the first row of each date is kept
\* (a table whose dates are all different is returned as it is)
IsFirst(tagged) == ~tagged.duplicated
drop_duplicates(rows) ==
    IF Cardinality({rows[i].date : i \in DOMAIN rows}) = Len(rows) THEN rows
    ELSE LET tagged == [i \in DOMAIN rows |->
                            [row |-> rows[i],
                             duplicated |-> \E j \in 1..(i - 1) : rows[j].date = rows[i].date]]
             kept == SelectSeq(tagged, IsFirst)
         IN  [k \in DOMAIN kept |-> kept[k].row]

\* sort_values('date'): the rows in ascending order of date
DateBefore(a, b) == a.date < b.date

\* mutant: the rows are handed back in reverse order, not sorted
sort_values_date_reversed(rows) == [i \in DOMAIN rows |-> rows[Len(rows) + 1 - i]]

sort_values_date(rows) == SortSeq(rows, DateBefore)

\* process_nav_data raises: the schema is recognised and a date does not parse
process_nav_data_raises(nav_data) ==
    /\ Len(nav_data.rows) > 0
    /\ nav_data.date_col \in date_cols
    /\ nav_data.nav_col \in nav_cols
    /\ to_datetime_raises(nav_data.rows)

\* process_nav_data, when it does not raise: the canonical rows
\* [date, nav, acc_nav] (<<>>: empty table)
process_nav_data(nav_data) ==
    IF Len(nav_data.rows) = 0 THEN <<>>
    ELSE IF nav_data.date_col \notin date_cols \/ nav_data.nav_col \notin nav_cols THEN <<>>
    ELSE LET result == [i \in DOMAIN nav_data.rows |->
                            [date |-> nav_data.rows[i].date,
                             nav |-> to_numeric(nav_data.rows[i].nav),
                             acc_nav |-> IF nav_data.acc_col \in acc_nav_cols
                                         THEN to_numeric(nav_data.rows[i].acc)
                                         ELSE to_numeric(nav_data.rows[i].nav)]]
         IN  sort_values_date(drop_duplicates(dropna(result)))

\* (a / b - 1) * 100 in hundredths of a percent, rounded down
PctChange(a, b) == ((a - b) * 10000) \div b

period_days == [p \in {"1d", "1w", "1m", "3m", "6m", "1y", "2y", "3y", "5y"} |->
    CASE p = "1d" -> 1 [] p = "1w" -> 7 [] p = "1m" -> 30 [] p = "3m" -> 90
      [] p = "6m" -> 180 [] p = "1y" -> 365 [] p = "2y" -> 730 [] p = "3y" -> 1095
      [] p = "5y" -> 1825]

default_periods == {"1d", "1w", "1m", "3m", "6m", "1y", "2y", "3y", "ytd"}

\* years are 365 days long in the model's calendar
YearStart(date) == (date \div 365) * 365

\* calculate_returns: {period: return_pct}, a period without a start point omitted
calculate_returns(nav_data) ==
    IF Len(nav_data) = 0 THEN <<>>
    ELSE LET df == sort_values_date(nav_data)
             latest == df[Len(df)]
             target(p) == IF p = "ytd" THEN YearStart(latest.date)
                          ELSE latest.date - period_days[p]
             \* df[df['date'] <= target_date].tail(1)
             start_data(p) ==
                LET OnOrBefore(row) == row.date <= target(p)
                    rows == SelectSeq(df, OnOrBefore)
                IN  IF Len(rows) = 0 THEN <<>> ELSE << rows[Len(rows)] >>
             have == {p \in default_periods :
                        Len(start_data(p)) > 0 /\ start_data(p)[1].nav > 0}
         IN  [p \in have |-> PctChange(latest.nav, start_data(p)[1].nav)]

\* The statistics of a series (standard deviations, cumulative products, powers)
\* are floating-point computations; the model takes their values, stats, as
\* given with the series and keeps what the code decides: which keys exist.
\* calculate_risk_metrics: {} under 30 points, else the five metrics
calculate_risk_metrics(nav, stats) ==
    IF Len(nav) < 30 THEN <<>>
    ELSE [k \in {"volatility", "max_drawdown", "sharpe_ratio", "sortino_ratio",
                 "calmar_ratio"} |-> stats[k]]

\* a float that is not NaN (pd.isna is False)
NotNaN(r) == r # NaN

\* calculate_ranking_percentile: rank is 1 plus the number of peers the fund's
\* return does not reach, in the order of sorted(all_returns, reverse=...);
\* (rank / len(sorted_returns)) * 100 in hundredths, rounded down
calculate_ranking_percentile(fund_return, all_returns, higher_is_better) ==
    IF Len(all_returns) = 0 \/ fund_return = NaN THEN 5000
    ELSE LET sorted_returns == SelectSeq(all_returns, NotNaN)
             ahead == {k \in DOMAIN sorted_returns :
                        IF higher_is_better THEN sorted_returns[k] > fund_return
                        ELSE sorted_returns[k] < fund_return}
             rank == 1 + Cardinality(ahead)
         IN  IF Len(sorted_returns) = 0 THEN 5000
             ELSE (rank * 10000) \div Len(sorted_returns)

-----------------------------------------------------------------------------
(* src/model/factors.py                                                    *)
(*                                                                         *)
(* A benchmark is [none, columns, len]: None, or a DataFrame with these    *)
(* columns and that many rows (pd.DataFrame() has no column and no row).   *)
(* A computation returns [raised, factors].                                *)

\* dict.update
Update(d, e) == [k \in (DOMAIN d) \cup (DOMAIN e) |-> IF k \in DOMAIN e THEN e[k] ELSE d[k]]

EmptyDict == <<>>
Ok(factors) == [raised |-> FALSE, factors |-> factors]
Raised == [raised |-> TRUE, factors |-> EmptyDict]

BenchEmpty(b) == b.len = 0

\* sort_values('date') and bench_df[['nav']] need these columns (else KeyError)
BenchKeyError(b) == "date" \notin b.columns \/ ({"close", "nav"} \cap b.columns = {})

\* peer_returns is never supplied by the workflow: no rank_pct_* key
calculate_return_factors(nav_data) ==
    LET returns == calculate_returns(process_nav_data(nav_data))
    IN  [k \in {"return_" \o p : p \in DOMAIN returns} |->
            returns[CHOOSE p \in DOMAIN returns : k = "return_" \o p]]

calculate_risk_factors(nav_data, stats) ==
    LET processed_nav == process_nav_data(nav_data)
        risk_metrics == calculate_risk_metrics(processed_nav, stats)
        factors == [k \in {"volatility", "max_drawdown"} |-> Get(risk_metrics, k, 0)]
    IN  IF Len(processed_nav) >= 30
        THEN Update(factors, [downside_volatility |-> stats.downside_volatility])
        ELSE factors

calculate_risk_adjusted_factors(nav_data, benchmark_data, stats) ==
    LET processed_nav == process_nav_data(nav_data)
        risk_metrics == calculate_risk_metrics(processed_nav, stats)
        factors == [k \in {"sharpe_ratio", "sortino_ratio", "calmar_ratio"} |->
                        Get(risk_metrics, k, 0)]
    IN  IF ~benchmark_data.none /\ ~BenchEmpty(benchmark_data)
        THEN IF Len(processed_nav) > 0 /\ BenchKeyError(benchmark_data)
             THEN Raised
             ELSE Ok(Update(factors,
                        IF Len(processed_nav) < 30 \/ benchmark_data.len < 30
                        THEN [information_ratio |-> 0, alpha |-> 0, beta |-> 100]
                        ELSE [information_ratio |-> stats.information_ratio,
                              alpha |-> stats.alpha, beta |-> stats.beta]))
        ELSE Ok(factors)

lookback_periods == {20, 60, 120, 250}

MomentumKey(period) ==
    CASE period = 20 -> "momentum_20d" [] period = 60 -> "momentum_60d"
      [] period = 120 -> "momentum_120d" [] period = 250 -> "momentum_250d"

calculate_momentum_factors(nav_data) ==
    LET df == process_nav_data(nav_data)
        n == Len(df)
        have == {period \in lookback_periods : n >= period /\ df[n - period + 1].nav > 0}
        momentum == [k \in {MomentumKey(period) : period \in have} |->
                        LET period == CHOOSE q \in have : MomentumKey(q) = k
                        IN  PctChange(df[n].nav, df[n - period + 1].nav)]
    IN  IF Len(df) = 0 THEN EmptyDict
        ELSE IF {"momentum_20d", "momentum_60d"} \subseteq DOMAIN momentum
             THEN Update(momentum, [momentum_acceleration |->
                        momentum["momentum_20d"] - momentum["momentum_60d"] \div 3])
             ELSE momentum

\* 100 - log10(scale / 100) * 30 for a scale above 100 亿; the model's funds
\* above that size have a scale of 1000 亿 or 10000 亿, whose logarithm is exact
ScaleScoreLarge(current_scale) ==
    CASE current_scale = 100000 -> 7000
      [] current_scale = 1000000 -> 4000

\* scale_history is never supplied by the workflow: no scale_stability key
calculate_scale_factors(current_scale) ==
    [scale |-> IF Truthy(current_scale) THEN current_scale ELSE 0,
     scale_score |->
        IF Truthy(current_scale)
        THEN IF 200 <= current_scale /\ current_scale <= 10000 THEN 10000
             ELSE IF current_scale < 200
                  THEN (IF current_scale * 50 > 0 THEN current_scale * 50 ELSE 0)
                  ELSE ScaleScoreLarge(current_scale)
        ELSE 5000]

\* manager_total_assets and manager_funds_count are 0 in the workflow's
\* fund_info: no manager_scale_score, no manager_focus_score
calculate_manager_factors(manager_tenure_years) ==
    [manager_tenure |-> IF Truthy(manager_tenure_years) THEN manager_tenure_years ELSE 0,
     manager_experience_score |->
        IF Truthy(manager_tenure_years)
        THEN IF manager_tenure_years >= 500 THEN 10000
             ELSE IF manager_tenure_years >= 300 THEN 8000
             ELSE IF manager_tenure_years >= 200 THEN 6000
             ELSE manager_tenure_years * 30
        ELSE 0]

_calculate_rolling_beta_stability(fund_nav, benchmark_nav, stats) ==
    IF BenchKeyError(benchmark_nav) THEN Raised
    ELSE IF benchmark_nav.len < 120 \/ Len(fund_nav) < 120
         THEN Ok([beta_stability |-> 10000])
         ELSE Ok([beta_stability |-> stats.beta_stability])

\* holdings_history is never supplied by the workflow: no style_consistency key
calculate_style_stability(nav_data, benchmark_data, stats) ==
    LET processed_nav == process_nav_data(nav_data)
        beta == IF benchmark_data.none THEN Ok(EmptyDict)
                ELSE _calculate_rolling_beta_stability(processed_nav, benchmark_data, stats)
        factors == IF Len(nav_data.rows) > 0 /\ Len(processed_nav) >= 250
                   THEN Update(beta.factors, [return_stability |-> stats.return_stability])
                   ELSE EmptyDict
        total == IF "beta_stability" \in DOMAIN factors
                 THEN (factors["beta_stability"] + factors["return_stability"]) \div 2
                 ELSE factors["return_stability"]
    IN  IF Len(nav_data.rows) > 0 /\ Len(processed_nav) >= 250 /\ beta.raised THEN Raised
        ELSE IF DOMAIN factors = {} THEN Ok(EmptyDict)
        ELSE Ok(Update(factors, [style_stability_score |-> total]))

\* ratios.nlargest(10).sum(): drop the smallest while more than ten are left
RECURSIVE SumSeq(_)
SumSeq(q) == IF q = <<>> THEN 0 ELSE Head(q) + SumSeq(Tail(q))
RECURSIVE Top10Sum(_)
Top10Sum(q) ==
    IF Len(q) <= 10 THEN SumSeq(q)
    ELSE LET m == CHOOSE i \in DOMAIN q : \A j \in DOMAIN q : q[i] <= q[j]
         IN  Top10Sum(SubSeq(q, 1, m - 1) \o SubSeq(q, m + 1, Len(q)))

\* holdings: a table with a ratio column, as the list of its ratios
calculate_concentration_factors(holdings) ==
    [concentration |-> IF Len(holdings) = 0 THEN 0 ELSE Top10Sum(holdings)]

\* calculate_all_factors; current_holdings is [none, ratios]
calculate_all_factors(nav_data, benchmark_data, fund_info, current_holdings, stats) ==
    LET return_factors == calculate_return_factors(nav_data)
        risk_factors == calculate_risk_factors(nav_data, stats)
        risk_adj == calculate_risk_adjusted_factors(nav_data, benchmark_data, stats)
        momentum_factors == calculate_momentum_factors(nav_data)
        info_factors ==
            IF DOMAIN fund_info # {}
            THEN Update(calculate_scale_factors(Get(fund_info, "scale", 0)),
                        calculate_manager_factors(Get(fund_info, "manager_tenure", 0)))
            ELSE EmptyDict
        style == calculate_style_stability(nav_data, benchmark_data, stats)
        concentration == IF current_holdings.none THEN EmptyDict
                         ELSE calculate_concentration_factors(current_holdings.ratios)
    IN  IF risk_adj.raised \/ style.raised THEN Raised
        ELSE Ok(Update(Update(Update(Update(Update(Update(return_factors, risk_factors),
                risk_adj.factors), momentum_factors), info_factors), style.factors),
                concentration))

-----------------------------------------------------------------------------
(* src/model/scoring_model.py                                              *)
(*                                                                         *)
(* Scores are in hundredths of a point (10000 is 100 points), weights in   *)
(* hundredths (40 is 0.4), factor bounds in the factor's own hundredths.   *)
(* A division rounds down to the hundredth of a point.                     *)

FactorWeight(name, weight, higher_is_better, min_value, max_value) ==
    [name |-> name, weight |-> weight, higher_is_better |-> higher_is_better,
     min_value |-> min_value, max_value |-> max_value]

\* max(0, min(100, v)) on a score
Clamp(v) == IF v < 0 THEN 0 ELSE IF v > 10000 THEN 10000 ELSE v

\* mutant: the linear score is not clamped to 0..100
LinearScore_unclamped(value, min_value, max_value) ==
    ((value - min_value) * 10000) \div (max_value - min_value)

\* mutant: the linear score falls as the value rises
LinearScore_falling(value, min_value, max_value) ==
    IF value <= min_value THEN 10000
    ELSE IF value >= max_value THEN 0
    ELSE ((max_value - value) * 10000) \div (max_value - min_value)

\* (value - min_value) / (max_value - min_value) * 100, then max(0, min(100, .));
\* the ends are clamped before the value is scaled, which gives the same score
\* without leaving the integers' range
LinearScore(value, min_value, max_value) ==
    IF max_value > min_value
    THEN IF value <= min_value THEN 0
         ELSE IF value >= max_value THEN 10000
         ELSE ((value - min_value) * 10000) \div (max_value - min_value)
    ELSE IF value >= min_value THEN 0
         ELSE IF value <= max_value THEN 10000
         ELSE ((min_value - value) * 10000) \div (min_value - max_value)

\* FactorWeight.normalize
normalize(fw, value) ==
    IF value = NaN \/ value = NoneV THEN 5000
    ELSE IF fw.min_value # NoneV /\ fw.max_value # NoneV
         THEN IF fw.max_value = fw.min_value THEN 5000
              ELSE IF fw.higher_is_better
                   THEN LinearScore(value, fw.min_value, fw.max_value)
                   ELSE 10000 - LinearScore(value, fw.min_value, fw.max_value)
         ELSE IF fw.higher_is_better THEN Clamp(value) ELSE Clamp(10000 - value)

\* ScoringConfig and its subclasses: the category weights
CategoryWeights(r, k, ra, sc, m, st) ==
    [return_weight |-> r, risk_weight |-> k, risk_adjusted_weight |-> ra,
     scale_weight |-> sc, manager_weight |-> m, style_weight |-> st]
ScoringConfig == CategoryWeights(25, 20, 25, 10, 10, 10)
IndexFundScoringConfig == CategoryWeights(30, 15, 20, 15, 5, 15)
ActiveFundScoringConfig == CategoryWeights(20, 15, 30, 10, 15, 10)
BondFundScoringConfig == CategoryWeights(20, 30, 25, 10, 5, 10)

\* the sub-factor lists, the same in every configuration
return_factors ==
    << FactorWeight("return_1y", 40, TRUE, -5000, 10000),
       FactorWeight("return_3y", 35, TRUE, -5000, 20000),
       FactorWeight("rank_pct_1y", 25, FALSE, 0, 10000) >>
risk_factors ==
    << FactorWeight("volatility", 40, FALSE, 0, 5000),
       FactorWeight("max_drawdown", 40, FALSE, -5000, 0),
       FactorWeight("downside_volatility", 20, FALSE, 0, 3000) >>
risk_adjusted_factors ==
    << FactorWeight("sharpe_ratio", 40, TRUE, -100, 300),
       FactorWeight("sortino_ratio", 30, TRUE, -100, 400),
       FactorWeight("calmar_ratio", 30, TRUE, -100, 300) >>
scale_factors == << FactorWeight("scale_score", 100, TRUE, 0, 10000) >>
manager_factors ==
    << FactorWeight("manager_experience_score", 50, TRUE, 0, 10000),
       FactorWeight("manager_focus_score", 50, TRUE, 0, 10000) >>
style_factors ==
    << FactorWeight("style_stability_score", 50, TRUE, 0, 10000),
       FactorWeight("return_stability", 50, TRUE, 0, 10000) >>

\* get_scoring_config_for_type on the category keys of categorize_funds
get_scoring_config_for_type(fund_type) ==
    CASE fund_type = "index" -> IndexFundScoringConfig
      [] fund_type = "bond" -> BondFundScoringConfig
      [] OTHER -> ScoringConfig

\* the "for fw in factor_weights" loop of calculate_category_score, from fw i on
RECURSIVE category_loop(_, _, _)
category_loop(factors, factor_weights, i) ==
    IF i > Len(factor_weights) THEN [weighted_sum |-> 0, total_weight |-> 0]
    ELSE LET rest == category_loop(factors, factor_weights, i + 1)
             fw == factor_weights[i]
         IN  IF fw.name \in DOMAIN factors
             THEN [weighted_sum |-> rest.weighted_sum
                                        + normalize(fw, factors[fw.name]) * fw.weight,
                   total_weight |-> rest.total_weight + fw.weight]
             ELSE rest

\* mutant: the weight of an absent factor stays in the denominator
calculate_category_score_all_weights(factors, factor_weights) ==
    LET acc == category_loop(factors, factor_weights, 1)
    IN  IF acc.total_weight > 0
        THEN acc.weighted_sum
                \div SumSeq([i \in DOMAIN factor_weights |-> factor_weights[i].weight])
        ELSE 5000

calculate_category_score(factors, factor_weights) ==
    LET acc == category_loop(factors, factor_weights, 1)
    IN  IF acc.total_weight > 0 THEN acc.weighted_sum \div acc.total_weight ELSE 5000

\* mutant: the weighted sum of the category scores is divided by one weight
\* short of the total
calculate_total_score_short(config, factors) ==
    LET scores == << calculate_category_score(factors, return_factors),
                     calculate_category_score(factors, risk_factors),
                     calculate_category_score(factors, risk_adjusted_factors),
                     calculate_category_score(factors, scale_factors),
                     calculate_category_score(factors, manager_factors),
                     calculate_category_score(factors, style_factors) >>
    IN  (scores[1] * config.return_weight + scores[2] * config.risk_weight
            + scores[3] * config.risk_adjusted_weight + scores[4] * config.scale_weight
            + scores[5] * config.manager_weight + scores[6] * config.style_weight)
        \div (config.return_weight + config.risk_weight + config.risk_adjusted_weight
                + config.scale_weight + config.manager_weight)

calculate_total_score(config, factors) ==
    LET categories ==
            << <<config.return_weight, return_factors>>,
               <<config.risk_weight, risk_factors>>,
               <<config.risk_adjusted_weight, risk_adjusted_factors>>,
               <<config.scale_weight, scale_factors>>,
               <<config.manager_weight, manager_factors>>,
               <<config.style_weight, style_factors>> >>
        cat_score(c) == calculate_category_score(factors, categories[c][2])
        weighted_sum == SumSeq([c \in 1..6 |-> cat_score(c) * categories[c][1]])
        total_weight == SumSeq([c \in 1..6 |-> categories[c][1]])
    IN  IF total_weight > 0 THEN weighted_sum \div total_weight ELSE 0

\* result['category_scores'] of calculate_total_score, in the order of its
\* categories: return, risk, risk_adjusted, scale, manager, style
category_scores(factors) ==
    << calculate_category_score(factors, return_factors),
       calculate_category_score(factors, risk_factors),
       calculate_category_score(factors, risk_adjusted_factors),
       calculate_category_score(factors, scale_factors),
       calculate_category_score(factors, manager_factors),
       calculate_category_score(factors, style_factors) >>

get_score_grade(score) ==
    IF score >= 8000 THEN "A"
    ELSE IF score >= 7000 THEN "B"
    ELSE IF score >= 6000 THEN "C"
    ELSE IF score >= 5000 THEN "D"
    ELSE "E"

\* a comparison of a float with a number: False whenever the float is NaN
Gt(value, bound) == value # NaN /\ value > bound
Lt(value, bound) == value # NaN /\ value < bound
Ge(value, bound) == value # NaN /\ value >= bound

\* one entry of recommendation['reasons'] or recommendation['risks']: the factor
\* it speaks of ("score" for the sentence on the grade) and what it says of it
Remark(factor, says) == [factor |-> factor, says |-> says]

\* get_recommendation; comparing None with a number raises TypeError
get_recommendation(score, factors) ==
    LET return_1y == Get(factors, "return_1y", 0)
        max_dd == Get(factors, "max_drawdown", 0)
        volatility == Get(factors, "volatility", 0)
        sharpe == Get(factors, "sharpe_ratio", 0)
        manager_tenure == Get(factors, "manager_tenure", 0)
        scale == Get(factors, "scale", 0)
    IN  IF NoneV \in {return_1y, max_dd, volatility, sharpe, manager_tenure, scale}
        THEN [raised |-> TRUE, grade |-> "", reasons |-> <<>>, risks |-> <<>>]
        ELSE [raised |-> FALSE,
              grade |-> get_score_grade(score),
              reasons |->
                    << Remark("score", get_score_grade(score)) >>
                 \o (IF Gt(return_1y, 3000) THEN << Remark("return_1y", "excellent") >>
                     ELSE <<>>)
                 \o (IF Gt(sharpe, 150) THEN << Remark("sharpe_ratio", "outstanding") >>
                     ELSE <<>>)
                 \o (IF Ge(manager_tenure, 500)
                     THEN << Remark("manager_tenure", "experienced") >> ELSE <<>>),
              risks |->
                    (IF ~Gt(return_1y, 3000) /\ Lt(return_1y, 0)
                     THEN << Remark("return_1y", "negative") >> ELSE <<>>)
                 \o (IF Lt(max_dd, -3000) THEN << Remark("max_drawdown", "large") >>
                     ELSE <<>>)
                 \o (IF Gt(volatility, 3000) THEN << Remark("volatility", "high") >>
                     ELSE <<>>)
                 \o (IF ~Gt(sharpe, 150) /\ Lt(sharpe, 50)
                     THEN << Remark("sharpe_ratio", "low") >> ELSE <<>>)
                 \o (IF ~Ge(manager_tenure, 500) /\ Lt(manager_tenure, 200)
                     THEN << Remark("manager_tenure", "short") >> ELSE <<>>)
                 \o (IF Lt(scale, 200) THEN << Remark("scale", "small") >>
                     ELSE IF Gt(scale, 20000) THEN << Remark("scale", "large") >>
                     ELSE <<>>)]

\* mutant: the row goes before the rows of a higher score
InsertByScore_ascending(sorted, row) ==
    LET k == Cardinality({i \in DOMAIN sorted : sorted[i].total_score <= row.total_score})
    IN  SubSeq(sorted, 1, k) \o << row >> \o SubSeq(sorted, k + 1, Len(sorted))

\* one step of sort_values('total_score', ascending=False) on a sorted prefix:
\* the row goes behind every row of a score at least as high
InsertByScore(sorted, row) ==
    LET k == Cardinality({i \in DOMAIN sorted : sorted[i].total_score >= row.total_score})
    IN  SubSeq(sorted, 1, k) \o << row >> \o SubSeq(sorted, k + 1, Len(sorted))

RECURSIVE sort_values_total_score(_)
sort_values_total_score(rows) ==
    IF Len(rows) = 0 THEN << >>
    ELSE InsertByScore(sort_values_total_score(SubSeq(rows, 1, Len(rows) - 1)),
                       rows[Len(rows)])

\* batch_score: a row per fund, best score first, rank 1..n; funds_factors is
\* the dict as the sequence of its items [fund_code, factors]
batch_score(config, funds_factors) ==
    LET results == [i \in DOMAIN funds_factors |->
                        [fund_code |-> funds_factors[i].fund_code,
                         total_score |-> calculate_total_score(config,
                                                funds_factors[i].factors)]]
        df == sort_values_total_score(results)
    IN  [i \in DOMAIN df |-> [fund_code |-> df[i].fund_code,
                              total_score |-> df[i].total_score,
                              rank |-> i]]

-----------------------------------------------------------------------------
(* src/model/prefilter.py : the rules *)

MinScaleRule_check(min_scale, fund_data) ==
    LET scale == Get(fund_data, "scale", 0)
    IN  IF Truthy(scale) /\ scale >= min_scale
        THEN Fmt(scale, Ret(TRUE))
        ELSE Fmt(scale, Ret(FALSE))

MinTenureRule_check(min_years, fund_data) ==
    LET tenure == Get(fund_data, "tenure_years", 0)
    IN  IF Truthy(tenure) /\ tenure >= min_years
        THEN Fmt(tenure, Ret(TRUE))
        ELSE Fmt(tenure, Ret(FALSE))

MinManagerTenureRule_check(min_years, fund_data) ==
    LET tenure == Get(fund_data, "manager_tenure", 0)
    IN  IF Truthy(tenure) /\ tenure >= min_years
        THEN Fmt(tenure, Ret(TRUE))
        ELSE Fmt(tenure, Ret(FALSE))

\* mutant: the boundary excluded
MaxDrawdownRule_check_strict(max_drawdown, fund_data) ==
    LET drawdown == Get(fund_data, "max_drawdown", 0)
    IN  IF drawdown = NoneV \/ drawdown > max_drawdown
        THEN Fmt(drawdown, Ret(TRUE))
        ELSE Fmt(drawdown, Ret(FALSE))

MaxDrawdownRule_check(max_drawdown, fund_data) ==
    LET drawdown == Get(fund_data, "max_drawdown", 0)
    IN  IF drawdown = NoneV \/ drawdown >= max_drawdown
        THEN Fmt(drawdown, Ret(TRUE))
        ELSE Fmt(drawdown, Ret(FALSE))

\* mutant: a percentile on the bound counts as a failure
Exceeds_inclusive(rank_pct, bound) == rank_pct # NoneV /\ rank_pct >= bound

\* "rank_pct is not None and rank_pct > bound": one sub-check of 4433 fails
Exceeds(rank_pct, bound) == rank_pct # NoneV /\ rank_pct > bound

Quarter == 2500
Third == 3333

\* returns (len(failures) == 0, failures); failures kept as the failed periods
Rule4433_check_4433(rank_pct_1y, rank_pct_2y, rank_pct_3y, rank_pct_6m, rank_pct_3m) ==
    LET failures ==
            (IF Exceeds(rank_pct_1y, Quarter) THEN <<"1y">> ELSE <<>>)
         \o (IF Exceeds(rank_pct_2y, Quarter) THEN <<"2y">> ELSE <<>>)
         \o (IF Exceeds(rank_pct_3y, Quarter) THEN <<"3y">> ELSE <<>>)
         \o (IF Exceeds(rank_pct_6m, Third) THEN <<"6m">> ELSE <<>>)
         \o (IF Exceeds(rank_pct_3m, Third) THEN <<"3m">> ELSE <<>>)
    IN  [passed |-> Len(failures) = 0, failures |-> failures]

\* mutant: the moderate mode asks for two passing checks only
Enhanced4433_verdict_two(strict, passed_rules, failed_rules) ==
    IF strict THEN Len(failed_rules) = 0 ELSE Len(passed_rules) >= 2

\* "if self.strict: ... else: passed = len(passed_rules) >= 3"
Enhanced4433_verdict(strict, passed_rules, failed_rules) ==
    IF strict THEN Len(failed_rules) = 0 ELSE Len(passed_rules) >= 3

Enhanced4433Rule_check(strict, fund_data) ==
    LET r4433 == Rule4433_check_4433(
                    Get(fund_data, "rank_pct_1y", NoneV),
                    Get(fund_data, "rank_pct_2y", NoneV),
                    Get(fund_data, "rank_pct_3y", NoneV),
                    Get(fund_data, "rank_pct_6m", NoneV),
                    Get(fund_data, "rank_pct_3m", NoneV))
        sharpe == Get(fund_data, "sharpe_ratio", 0)
        max_dd == Get(fund_data, "max_drawdown", 0)
        manager_tenure == Get(fund_data, "manager_tenure", 0)
        sharpe_ok == Truthy(sharpe) /\ sharpe > 100
        max_dd_ok == max_dd = NoneV \/ max_dd > -2500
        manager_ok == Truthy(manager_tenure) /\ manager_tenure >= 200
        passed_rules ==
            (IF r4433.passed THEN <<"4433">> ELSE <<>>)
         \o (IF sharpe_ok THEN <<"sharpe">> ELSE <<>>)
         \o (IF max_dd_ok THEN <<"max_dd">> ELSE <<>>)
         \o (IF manager_ok THEN <<"manager">> ELSE <<>>)
        failed_rules ==
            (IF r4433.passed THEN <<>> ELSE r4433.failures)
         \o (IF sharpe_ok THEN <<>> ELSE <<"sharpe">>)
         \o (IF max_dd_ok THEN <<>> ELSE <<"max_dd">>)
         \o (IF manager_ok THEN <<>> ELSE <<"manager">>)
    IN  \* each branch formats its value with :.2f / :.1f
        IF sharpe = NoneV \/ max_dd = NoneV \/ manager_tenure = NoneV
        THEN Raise
        ELSE Ret(Enhanced4433_verdict(strict, passed_rules, failed_rules))

-----------------------------------------------------------------------------
(* src/model/prefilter.py : PreFilter *)

\* PreFilter.__init__: the rule list, in order
PreFilter_rules(cfg) ==
    <<  [name |-> "min_scale", is_required |-> TRUE],
        [name |-> "min_tenure", is_required |-> TRUE],
        [name |-> "min_manager_tenure", is_required |-> FALSE],
        [name |-> "max_drawdown", is_required |-> FALSE] >>
    \o (IF cfg.use_4433
        THEN << [name |-> "enhanced_4433", is_required |-> FALSE] >>
        ELSE <<>>)

\* rule.check(fund_data), dispatched on the rule's class
Rule_check(cfg, rule, fund_data) ==
    CASE rule.name = "min_scale" -> MinScaleRule_check(cfg.min_scale, fund_data)
      [] rule.name = "min_tenure" -> MinTenureRule_check(cfg.min_tenure, fund_data)
      [] rule.name = "min_manager_tenure" ->
            MinManagerTenureRule_check(cfg.min_manager_tenure, fund_data)
      [] rule.name = "max_drawdown" -> MaxDrawdownRule_check(cfg.max_drawdown, fund_data)
      [] rule.name = "enhanced_4433" -> Enhanced4433Rule_check(cfg.strict_4433, fund_data)

\* mutant: integer division, so 1 of 3 optional rules is enough
final_passed_floor(required_passed, optional_passed, optional_total) ==
    required_passed /\ (optional_total = 0 \/ optional_passed >= optional_total \div 2)

\* "required_passed and (optional_total == 0 or optional_passed >= optional_total / 2)"
\* (/ is true division: p >= t / 2 exactly when 2 p >= t)
final_passed(required_passed, optional_passed, optional_total) ==
    required_passed /\ (optional_total = 0 \/ 2 * optional_passed >= optional_total)

\* the "for rule in self.rules" loop of filter_single, from rule i on
RECURSIVE filter_single_loop(_, _, _, _, _)
filter_single_loop(cfg, rules, fund_data, i, acc) ==
    IF i > Len(rules) THEN acc
    ELSE LET r == Rule_check(cfg, rules[i], fund_data)
         IN  IF r.raised THEN [acc EXCEPT !.raised = TRUE]
             ELSE filter_single_loop(cfg, rules, fund_data, i + 1,
                    IF rules[i].is_required
                    THEN [acc EXCEPT !.required_passed = @ /\ r.passed]
                    ELSE [acc EXCEPT !.optional_total = @ + 1,
                                     !.optional_passed = @ + (IF r.passed THEN 1 ELSE 0)])

PreFilter_filter_single(cfg, fund_data) ==
    LET acc == filter_single_loop(cfg, PreFilter_rules(cfg), fund_data, 1,
                    [raised |-> FALSE, required_passed |-> TRUE,
                     optional_passed |-> 0, optional_total |-> 0])
    IN  IF acc.raised THEN Raise
        ELSE Ret(final_passed(acc.required_passed, acc.optional_passed, acc.optional_total))

\* the presets
PreFilterDefault ==
    [min_scale |-> 200, min_tenure |-> 300, min_manager_tenure |-> 200,
     max_drawdown |-> -4000, use_4433 |-> TRUE, strict_4433 |-> FALSE]
ConservativePreFilter ==
    [min_scale |-> 500, min_tenure |-> 500, min_manager_tenure |-> 300,
     max_drawdown |-> -2500, use_4433 |-> TRUE, strict_4433 |-> TRUE]
ModeratePreFilter ==
    [min_scale |-> 200, min_tenure |-> 300, min_manager_tenure |-> 200,
     max_drawdown |-> -3500, use_4433 |-> TRUE, strict_4433 |-> FALSE]
AggressivePreFilter ==
    [min_scale |-> 100, min_tenure |-> 200, min_manager_tenure |-> 100,
     max_drawdown |-> -5000, use_4433 |-> FALSE, strict_4433 |-> FALSE]

-----------------------------------------------------------------------------
(* The pre-filter as a state machine: a caller picks a rule or a filter and *)
(* a fund_data dict, calls it, and reads the result.                        *)

Absent == 0 - 2000000

\* the dict holding the keys of f whose value is not Absent
MkDict(f) == [k \in {x \in DOMAIN f : f[x] # Absent} |-> f[k]]

Presets == {PreFilterDefault, ConservativePreFilter, ModeratePreFilter, AggressivePreFilter}

\* fund_data handed to filter_single
FilterInputs ==
    [scale : {Absent, 0, 150, 200, 500},
     tenure_years : {Absent, 250, 300, 500},
     manager_tenure : {Absent, 150, 200, 300},
     max_drawdown : {Absent, NoneV, -4001, -4000, -2500, -2000},
     sharpe_ratio : {Absent, 100, 101},
     rank_pct_1y : {Absent, 2500, 2501},
     rank_pct_6m : {Absent, 3334}]

\* fund_data handed to Enhanced4433Rule.check
EnhancedInputs ==
    [rank_pct_1y : {Absent, NoneV, 2500, 2501},
     rank_pct_2y : {Absent, 2600},
     rank_pct_3y : {Absent, 2500},
     rank_pct_6m : {Absent, 3333, 3334},
     rank_pct_3m : {Absent, 3400},
     sharpe_ratio : {Absent, NoneV, 100, 101},
     max_drawdown : {Absent, NoneV, -2500, -2499},
     manager_tenure : {Absent, 199, 200}]

QuarterRanks == {NoneV, 2500, 2501}
ThirdRanks == {NoneV, 3333, 3334}

Thresholds == {-2500, -3500, -4000, -5000}
Drawdowns == {Absent, NoneV, -5001, -5000, -4001, -4000, -3501, -3500,
              -2501, -2500, -2499, 0}

IdlePF ==
    /\ pfOp = "idle"
    /\ pfArgs = <<>>
    /\ pfOut = <<>>

IdleFC ==
    /\ fcOp = "idle"
    /\ fcArgs = <<>>
    /\ fcOut = <<>>

IdleSC ==
    /\ scOp = "idle"
    /\ scArgs = <<>>
    /\ scOut = <<>>

\* no batch is being analysed
IdleWF ==
    /\ wfPc = "idle"
    /\ wfFunds = <<>>
    /\ wfFundType = ""
    /\ wfLimit = 0
    /\ wfBenchmark = <<>>
    /\ wfFutures = <<>>
    /\ wfTasks = <<>>
    /\ wfYielded = {}
    /\ wfFundsFactors = <<>>
    /\ wfCompleted = 0
    /\ wfFailed = 0
    /\ wfPassedFunds = <<>>
    /\ wfResult = <<>>

\* no call of _get_fund_factors is being followed
IdleGF ==
    /\ gfPc = "idle"
    /\ gfEnv = <<>>
    /\ gfCache = <<>>
    /\ gfLocals = <<>>
    /\ gfCalls = <<>>

IdleRA ==
    /\ raPc = "idle"
    /\ raFundTypes = <<>>
    /\ raFunds = <<>>
    /\ raCategorized = <<>>
    /\ raResults = <<>>

IdlePM ==
    /\ pmOp = "idle"
    /\ pmArgs = <<>>
    /\ pmOut = <<>>
    /\ pmPortfolio = <<>>
    /\ pmTradeHistory = <<>>
    /\ pmFile = <<>>
    /\ dePortfolio = <<>>
    /\ pmToday = <<>>

IdleRC ==
    /\ rcOp = "idle"
    /\ rcArgs = <<>>
    /\ rcOut = <<>>
    /\ rcBreaker = <<>>
    /\ rcNow = <<>>

InitPF == IdlePF /\ IdleFC /\ IdleSC /\ IdleRC /\ IdlePM /\ IdleRA /\ IdleWF /\ IdleGF

CallFilterSingle ==
    /\ UNCHANGED <<fcVars, scVars, wfVars, gfVars, raVars, pmVars, rcVars>>
    /\ pfOp = "idle"
    /\ \E cfg \in Presets, f \in FilterInputs :
          /\ pfOp' = "filter_single"
          /\ pfArgs' = [cfg |-> cfg, fund_data |-> MkDict(f)]
          /\ pfOut' = PreFilter_filter_single(cfg, MkDict(f))

CallEnhanced4433 ==
    /\ UNCHANGED <<fcVars, scVars, wfVars, gfVars, raVars, pmVars, rcVars>>
    /\ pfOp = "idle"
    /\ \E strict \in BOOLEAN, f \in EnhancedInputs :
          /\ pfOp' = "enhanced_4433"
          /\ pfArgs' = [strict |-> strict, fund_data |-> MkDict(f)]
          /\ pfOut' = Enhanced4433Rule_check(strict, MkDict(f))

CallCheck4433 ==
    /\ UNCHANGED <<fcVars, scVars, wfVars, gfVars, raVars, pmVars, rcVars>>
    /\ pfOp = "idle"
    /\ \E r1y \in QuarterRanks \cup {0}, r2y \in QuarterRanks, r3y \in QuarterRanks,
          r6m \in ThirdRanks, r3m \in ThirdRanks :
          /\ pfOp' = "check_4433"
          /\ pfArgs' = [rank_pct_1y |-> r1y, rank_pct_2y |-> r2y, rank_pct_3y |-> r3y,
                        rank_pct_6m |-> r6m, rank_pct_3m |-> r3m]
          /\ pfOut' = Rule4433_check_4433(r1y, r2y, r3y, r6m, r3m)

CallMaxDrawdown ==
    /\ UNCHANGED <<fcVars, scVars, wfVars, gfVars, raVars, pmVars, rcVars>>
    /\ pfOp = "idle"
    /\ \E th \in Thresholds, dd \in Drawdowns :
          /\ pfOp' = "max_drawdown"
          /\ pfArgs' = [max_drawdown |-> th, fund_data |-> MkDict([max_drawdown |-> dd])]
          /\ pfOut' = MaxDrawdownRule_check(th, MkDict([max_drawdown |-> dd]))

\* the caller has read the result
ReturnPF ==
    /\ UNCHANGED <<fcVars, scVars, wfVars, gfVars, raVars, pmVars, rcVars>>
    /\ pfOp # "idle"
    /\ pfOp' = "idle"
    /\ pfArgs' = <<>>
    /\ pfOut' = <<>>

NextPF ==
    \/ CallFilterSingle
    \/ CallEnhanced4433
    \/ CallCheck4433
    \/ CallMaxDrawdown
    \/ ReturnPF

SpecPreFilter == InitPF /\ [][NextPF]_vars

-----------------------------------------------------------------------------
(* Properties of the pre-filter *)

\* the optional / required rules of a configuration, by position in the rule list
RequiredRules(cfg) == {i \in DOMAIN PreFilter_rules(cfg) : PreFilter_rules(cfg)[i].is_required}
OptionalRules(cfg) == {i \in DOMAIN PreFilter_rules(cfg) : ~PreFilter_rules(cfg)[i].is_required}
RulePasses(cfg, i, fd) == Rule_check(cfg, PreFilter_rules(cfg)[i], fd).passed
AllRequiredPass(cfg, fd) == \A i \in RequiredRules(cfg) : RulePasses(cfg, i, fd)
OptionalPassing(cfg, fd) == Cardinality({i \in OptionalRules(cfg) : RulePasses(cfg, i, fd)})

\* C1: filter_single returns passed=True exactly when every required rule passes
\* and at least half of the optional rules pass (or there is none).  With the
\* default rules (2 required, 3 optional) a fund passing both required rules and
\* exactly 1 optional rule is rejected; with 2 optional rules (use_4433=False)
\* passing exactly 1 of them is accepted.
C1_FilterSingleVerdict ==
    (pfOp = "filter_single" /\ ~pfOut.raised) =>
        LET cfg == pfArgs.cfg
            fd == pfArgs.fund_data
            nopt == Cardinality(OptionalRules(cfg))
        IN  /\ pfOut.passed <=>
                    /\ AllRequiredPass(cfg, fd)
                    /\ (nopt = 0 \/ 2 * OptionalPassing(cfg, fd) >= nopt)
            /\ Cardinality(RequiredRules(PreFilterDefault)) = 2
            /\ Cardinality(OptionalRules(PreFilterDefault)) = 3
            /\ (cfg = PreFilterDefault /\ AllRequiredPass(cfg, fd)
                    /\ OptionalPassing(cfg, fd) = 1) => ~pfOut.passed
            /\ (~cfg.use_4433 /\ AllRequiredPass(cfg, fd)
                    /\ OptionalPassing(cfg, fd) = 1) => (nopt = 2 /\ pfOut.passed)

\* a default-rules call in which both required rules and exactly one optional
\* rule pass, and the fund is rejected
C1_Witness ==
    /\ pfOp = "filter_single"
    /\ ~pfOut.raised
    /\ pfArgs.cfg = PreFilterDefault
    /\ AllRequiredPass(pfArgs.cfg, pfArgs.fund_data)
    /\ OptionalPassing(pfArgs.cfg, pfArgs.fund_data) = 1
    /\ ~pfOut.passed

\* the four checks of the enhanced rule, as the rule's documentation states them
EnhancedChecksPassing(fd) ==
    LET bundle == Rule4433_check_4433(Get(fd, "rank_pct_1y", NoneV), Get(fd, "rank_pct_2y", NoneV),
                        Get(fd, "rank_pct_3y", NoneV), Get(fd, "rank_pct_6m", NoneV),
                        Get(fd, "rank_pct_3m", NoneV)).passed
    IN  (IF bundle THEN 1 ELSE 0)
      + (IF Get(fd, "sharpe_ratio", 0) > 100 THEN 1 ELSE 0)
      + (IF Get(fd, "max_drawdown", 0) > -2500 THEN 1 ELSE 0)
      + (IF Get(fd, "manager_tenure", 0) >= 200 THEN 1 ELSE 0)

\* C8: Enhanced4433Rule.check evaluates four checks (the 4433 bundle as one,
\* Sharpe > 1, max_drawdown > -25, manager_tenure >= 2); in non-strict mode it
\* passes iff at least 3 pass, in strict mode iff all 4 pass.
C8_EnhancedVerdict ==
    (pfOp = "enhanced_4433" /\ ~pfOut.raised) =>
        (pfOut.passed <=>
            IF pfArgs.strict THEN EnhancedChecksPassing(pfArgs.fund_data) = 4
            ELSE EnhancedChecksPassing(pfArgs.fund_data) >= 3)

\* a non-strict call with exactly three passing checks, which passes
C8_Witness ==
    /\ pfOp = "enhanced_4433"
    /\ ~pfOut.raised
    /\ ~pfArgs.strict
    /\ EnhancedChecksPassing(pfArgs.fund_data) = 3
    /\ pfOut.passed

\* a supplied percentile meets its bound, a missing one passes
MeetsBound(rank_pct, bound) == rank_pct = NoneV \/ rank_pct <= bound

\* C9: check_4433 passes iff every supplied percentile meets its bound (1y, 2y,
\* 3y <= 25; 6m, 3m <= 33.33), a missing percentile passing its sub-check; a
\* 1-year percentile of exactly 25.0 passes and 25.01 fails.
C9_Check4433 ==
    pfOp = "check_4433" =>
        /\ pfOut.passed <=>
                /\ MeetsBound(pfArgs.rank_pct_1y, 2500)
                /\ MeetsBound(pfArgs.rank_pct_2y, 2500)
                /\ MeetsBound(pfArgs.rank_pct_3y, 2500)
                /\ MeetsBound(pfArgs.rank_pct_6m, 3333)
                /\ MeetsBound(pfArgs.rank_pct_3m, 3333)
        /\ (pfArgs = [rank_pct_1y |-> 2500, rank_pct_2y |-> NoneV, rank_pct_3y |-> NoneV,
                      rank_pct_6m |-> NoneV, rank_pct_3m |-> NoneV]) => pfOut.passed
        /\ pfArgs.rank_pct_1y = 2501 => ~pfOut.passed

\* the boundary call: 1-year percentile 25.0, nothing else supplied, passes
C9_Witness ==
    /\ pfOp = "check_4433"
    /\ pfArgs.rank_pct_1y = 2500
    /\ pfArgs.rank_pct_2y = NoneV /\ pfArgs.rank_pct_3y = NoneV
    /\ pfArgs.rank_pct_6m = NoneV /\ pfArgs.rank_pct_3m = NoneV
    /\ pfOut.passed

\* C10: MaxDrawdownRule.check passes iff drawdown >= threshold (both negative
\* percentages): a drawdown equal to the threshold passes, any more negative fails.
C10_MaxDrawdown ==
    (pfOp = "max_drawdown" /\ ~pfOut.raised) =>
        LET drawdown == Get(pfArgs.fund_data, "max_drawdown", 0)
        IN  /\ pfOut.passed <=> drawdown >= pfArgs.max_drawdown
            /\ drawdown = pfArgs.max_drawdown => pfOut.passed
            /\ drawdown < pfArgs.max_drawdown => ~pfOut.passed

\* -25.0 against the threshold -25.0 passes
C10_Witness ==
    /\ pfOp = "max_drawdown"
    /\ pfArgs.max_drawdown = -2500
    /\ Get(pfArgs.fund_data, "max_drawdown", 0) = -2500
    /\ ~pfOut.raised
    /\ pfOut.passed

\* C11: a fund whose scale is 0 (no scale history) gets scale = 0 and
\* scale_score = 50 from calculate_scale_factors, and filter_single with the
\* default min_scale of 2.0 returns passed=False for it whatever its other data
C11_ZeroScaleRejected ==
    /\ calculate_scale_factors(0) = [scale |-> 0, scale_score |-> 5000]
    /\ (/\ pfOp = "filter_single"
        /\ pfArgs.cfg.min_scale = 200
        /\ "scale" \in DOMAIN pfArgs.fund_data
        /\ pfArgs.fund_data["scale"] = calculate_scale_factors(0).scale)
            => (~pfOut.raised /\ ~pfOut.passed)

\* C26: a rule's check never raises, whichever keys of fund_data are absent or
\* None: MaxDrawdownRule.check and Enhanced4433Rule.check return, a
\* max_drawdown of None passes MaxDrawdownRule, and filter_single returns a
\* verdict
C26_RulesNeverRaise ==
    /\ pfOp \in {"max_drawdown", "enhanced_4433", "filter_single"} => ~pfOut.raised
    /\ (pfOp = "max_drawdown" /\ Get(pfArgs.fund_data, "max_drawdown", 0) = NoneV)
            => pfOut.passed

-----------------------------------------------------------------------------
(* The factor calculator as a state machine: a caller hands it a NAV table, *)
(* a benchmark, the fund's info and holdings, and reads the factor map.     *)

\* +infinity (the Sortino ratio of a series without a negative daily return)
Inf == 1000000

\* what numpy computes on a series of 30 points or more: two funds
StatsSteady ==
    [volatility |-> 1500, max_drawdown |-> -2000, sharpe_ratio |-> 120,
     sortino_ratio |-> 180, calmar_ratio |-> 90, downside_volatility |-> 1000,
     information_ratio |-> 50, alpha |-> 300, beta |-> 95,
     beta_stability |-> 9000, return_stability |-> 8000]
StatsWild ==
    [volatility |-> 3500, max_drawdown |-> -4500, sharpe_ratio |-> 30,
     sortino_ratio |-> Inf, calmar_ratio |-> 20, downside_volatility |-> 2800,
     information_ratio |-> -40, alpha |-> -200, beta |-> 130,
     beta_stability |-> 6000, return_stability |-> 5000]
StatsSet == {StatsSteady, StatsWild}

\* a NAV table of n trading days, `stride` calendar days apart; a dirty table
\* also repeats its first date and holds a row without a nav
NavRows(n, stride) ==
    [i \in 1..n |-> [date |-> 2000 + i * stride,
                     nav |-> 10000 + 10 * i + 25 * ((i * 7) % 5),
                     acc |-> 12000 + 10 * i + 25 * ((i * 7) % 5)]]

NavTable(desc) ==
    [date_col |-> desc.date_col, nav_col |-> desc.nav_col, acc_col |-> desc.acc_col,
     rows |-> IF desc.dirty /\ desc.n > 0
              THEN << [date |-> 2000 + 3 * desc.n * desc.stride, nav |-> NaN, acc |-> NaN] >>
                   \o NavRows(desc.n, desc.stride)
                   \o << [date |-> 2000 + desc.stride, nav |-> 9000, acc |-> 9000] >>
              ELSE NavRows(desc.n, desc.stride)]

NavLens == {0, 1, 29, 30, 249, 250}

Schemas ==
    { [date_col |-> "jingzhi_riqi", nav_col |-> "danwei_jingzhi", acc_col |-> "leiji_jingzhi"],
      [date_col |-> "x", nav_col |-> "y", acc_col |-> ""],
      [date_col |-> "when", nav_col |-> "value", acc_col |-> ""] }

NavDescs ==
    { [n |-> n, stride |-> stride, dirty |-> dirty, date_col |-> sc.date_col,
       nav_col |-> sc.nav_col, acc_col |-> sc.acc_col] :
        n \in NavLens, stride \in {1, 2}, dirty \in BOOLEAN, sc \in Schemas }

\* self.benchmark_data: None until fetched; get_index_daily returns
\* pd.DataFrame() when the fetch fails, else the index's daily rows
BenchNone == [none |-> TRUE, columns |-> {}, len |-> 0]
BenchFailed == [none |-> FALSE, columns |-> {}, len |-> 0]
BenchNoRows ==
    [none |-> FALSE, columns |-> {"date", "open", "high", "low", "close", "volume"}, len |-> 0]
BenchDaily ==
    [none |-> FALSE, columns |-> {"date", "open", "high", "low", "close", "volume"}, len |-> 300]
Benchmarks == {BenchNone, BenchFailed, BenchNoRows, BenchDaily}

\* fund_data built by _get_fund_factors: scale, tenure_years, manager_tenure
FundInfos ==
    { [fund_code |-> 1, scale |-> 0, tenure_years |-> 0, manager_tenure |-> 0],
      [fund_code |-> 1, scale |-> 500, tenure_years |-> 400, manager_tenure |-> 250] }

HoldingsSet ==
    { [none |-> TRUE, ratios |-> <<>>],
      [none |-> FALSE, ratios |-> <<>>],
      [none |-> FALSE, ratios |-> <<950, 800, 720, 610, 540, 430, 390, 310, 250, 120, 90>>] }

InitFC == IdlePF /\ IdleFC /\ IdleSC /\ IdleRC /\ IdlePM /\ IdleRA /\ IdleWF /\ IdleGF

CallCalculateAllFactors ==
    /\ UNCHANGED <<pfVars, scVars, wfVars, gfVars, raVars, pmVars, rcVars>>
    /\ fcOp = "idle"
    /\ \E nav \in NavDescs, b \in Benchmarks, info \in FundInfos,
          h \in HoldingsSet, stats \in StatsSet :
          /\ fcOp' = "calculate_all_factors"
          /\ fcArgs' = [nav |-> nav, benchmark |-> b, fund_info |-> info,
                        holdings |-> h, stats |-> stats]
          /\ fcOut' = calculate_all_factors(NavTable(nav), b, info, h, stats)

CallCalculateRiskMetrics ==
    /\ UNCHANGED <<pfVars, scVars, wfVars, gfVars, raVars, pmVars, rcVars>>
    /\ fcOp = "idle"
    /\ \E nav \in NavDescs, stats \in StatsSet :
          /\ fcOp' = "calculate_risk_metrics"
          /\ fcArgs' = [nav |-> nav, stats |-> stats]
          /\ fcOut' = Ok(calculate_risk_metrics(process_nav_data(NavTable(nav)), stats))

\* the longest raw table handed to process_nav_data on its own
MaxRows == 3

\* the rows of such a table: two days, two navs, null and unparsable cells
RawRows ==
    [date : {1, 2, NaN, Unparsable}, nav : {10000, 10100, NaN, Unparsable}, acc : {10500}]

RawSchemas ==
    { [date_col |-> "date", nav_col |-> "nav", acc_col |-> "acc_nav"],
      [date_col |-> "FSRQ", nav_col |-> "DWJZ", acc_col |-> ""],
      [date_col |-> "when", nav_col |-> "nav", acc_col |-> "acc_nav"],
      [date_col |-> "riqi", nav_col |-> "value", acc_col |-> ""] }

RawTables ==
    { [date_col |-> schema.date_col, nav_col |-> schema.nav_col,
       acc_col |-> schema.acc_col, rows |-> rows]
        : schema \in RawSchemas,
          rows \in UNION {[1..n -> RawRows] : n \in 0..MaxRows} }

CallProcessNavData ==
    /\ UNCHANGED <<pfVars, scVars, wfVars, gfVars, raVars, pmVars, rcVars>>
    /\ fcOp = "idle"
    /\ \E nav_data \in RawTables :
          /\ fcOp' = "process_nav_data"
          /\ fcArgs' = [nav_data |-> nav_data]
          /\ fcOut' = IF process_nav_data_raises(nav_data)
                      THEN [raised |-> TRUE, rows |-> <<>>]
                      ELSE [raised |-> FALSE, rows |-> process_nav_data(nav_data)]

\* the longest peer list handed to calculate_ranking_percentile
MaxPeers == 3

PeerReturns == {NaN, 0, 500, 1000}
FundReturns == {NaN, -500, 0, 500, 1000, 1500}

CallRankingPercentile ==
    /\ UNCHANGED <<pfVars, scVars, wfVars, gfVars, raVars, pmVars, rcVars>>
    /\ fcOp = "idle"
    /\ \E fund_return \in FundReturns, higher_is_better \in BOOLEAN,
          all_returns \in UNION {[1..n -> PeerReturns] : n \in 0..MaxPeers} :
          /\ fcOp' = "calculate_ranking_percentile"
          /\ fcArgs' = [fund_return |-> fund_return, all_returns |-> all_returns,
                        higher_is_better |-> higher_is_better]
          /\ fcOut' = calculate_ranking_percentile(fund_return, all_returns,
                                                   higher_is_better)

ReturnFC ==
    /\ UNCHANGED <<pfVars, scVars, wfVars, gfVars, raVars, pmVars, rcVars>>
    /\ fcOp # "idle"
    /\ fcOp' = "idle"
    /\ fcArgs' = <<>>
    /\ fcOut' = <<>>

NextFC ==
    \/ CallCalculateAllFactors
    \/ CallCalculateRiskMetrics
    \/ CallProcessNavData
    \/ CallRankingPercentile
    \/ ReturnFC

SpecFactors == InitFC /\ [][NextFC]_vars

-----------------------------------------------------------------------------
(* Claims about the factor calculator, checked under SpecFactors           *)

BenchmarkUnavailable(b) == b.none \/ BenchEmpty(b)

\* C6: calculate_all_factors never raises when the benchmark is None or empty,
\* whatever the NAV series (250 points or more included): it returns a factor map
C6_NoRaiseWithoutBenchmark ==
    (fcOp = "calculate_all_factors" /\ BenchmarkUnavailable(fcArgs.benchmark))
        => ~fcOut.raised

RiskKeys == {"volatility", "max_drawdown", "sharpe_ratio", "sortino_ratio", "calmar_ratio"}

\* C7: when the normalised NAV series has fewer than 30 points, the factor map
\* holds none of volatility, max_drawdown, sharpe_ratio, sortino_ratio, calmar_ratio
C7_ShortSeriesOmitsRiskKeys ==
    (/\ fcOp = "calculate_all_factors"
     /\ ~fcOut.raised
     /\ Len(process_nav_data(NavTable(fcArgs.nav))) < 30)
        => (DOMAIN fcOut.factors) \cap RiskKeys = {}

------------------------------------------------------------------------\* C21: for each lookback N in {20, 60, 120, 250}, momentum_Nd is present iff
\* the normalised series has at least N points and the start nav is positive,
\* and equals (latest nav / nav of the point N trading days before the latest
\* point - 1) x 100; momentum_acceleration = momentum_20d - momentum_60d / 3 is
\* present iff both of those are
C21_MomentumOverNDays ==
    (fcOp = "calculate_all_factors" /\ ~fcOut.raised) =>
        LET df == process_nav_data(NavTable(fcArgs.nav))
            n == Len(df)
            factors == fcOut.factors
        IN  /\ \A N \in {20, 60, 120, 250} :
                /\ MomentumKey(N) \in DOMAIN factors =>
                        /\ n >= N
                        /\ n - N >= 1
                        /\ df[n - N].nav > 0
                        /\ factors[MomentumKey(N)] = PctChange(df[n].nav, df[n - N].nav)
                /\ (n - N >= 1 /\ df[n - N].nav > 0) => MomentumKey(N) \in DOMAIN factors
            /\ "momentum_acceleration" \in DOMAIN factors
                    <=> {"momentum_20d", "momentum_60d"} \subseteq DOMAIN factors
            /\ "momentum_acceleration" \in DOMAIN factors =>
                    factors["momentum_acceleration"]
                        = factors["momentum_20d"] - factors["momentum_60d"] \div 3

\* C22: calculate_ranking_percentile returns a value within 0..100 for every
\* fund return and every non-empty peer list, and with the same peers the
\* value never increases when the fund's return increases
C22_PercentileRange ==
    (/\ fcOp = "calculate_ranking_percentile"
     /\ fcArgs.higher_is_better
     /\ fcArgs.fund_return # NaN
     /\ Len(fcArgs.all_returns) > 0) =>
        /\ 0 <= fcOut /\ fcOut <= 10000
        /\ \A r \in FundReturns :
                (r # NaN /\ r >= fcArgs.fund_return) =>
                    calculate_ranking_percentile(r, fcArgs.all_returns, TRUE) <= fcOut

-----------------------------------------------------------------------------
(* Claims about process_nav_data, checked under SpecFactors                *)

Recognised(nav_data) ==
    nav_data.date_col \in date_cols /\ nav_data.nav_col \in nav_cols

\* C18: for every input with a recognised date column and nav column,
\* process_nav_data returns rows sorted strictly ascending by date, at most one
\* row per date, none with a null date or nav; for an empty input or an
\* unrecognised schema it returns an empty table rather than raising
C18_CanonicalRows ==
    fcOp = "process_nav_data" =>
        /\ ~fcOut.raised
        /\ \A i \in DOMAIN fcOut.rows :
                /\ fcOut.rows[i].date # NaN
                /\ fcOut.rows[i].nav # NaN
                /\ \A j \in DOMAIN fcOut.rows : i < j => fcOut.rows[i].date < fcOut.rows[j].date
        /\ (Len(fcArgs.nav_data.rows) = 0 \/ ~Recognised(fcArgs.nav_data))
                => fcOut.rows = <<>>

\* the returned table, handed to process_nav_data as its input
AsTable(rows) ==
    [date_col |-> "date", nav_col |-> "nav", acc_col |-> "acc_nav",
     rows |-> [i \in DOMAIN rows |->
                [date |-> rows[i].date, nav |-> rows[i].nav, acc |-> rows[i].acc_nav]]]

\* C19: process_nav_data applied to its own output returns that output
C19_Idempotent ==
    (fcOp = "process_nav_data" /\ ~fcOut.raised) =>
        /\ ~process_nav_data_raises(AsTable(fcOut.rows))
        /\ process_nav_data(AsTable(fcOut.rows)) = fcOut.rows

\* a table of three rows out of order, one of them without a nav, normalised
\* to two rows
C19_Witness ==
    /\ fcOp = "process_nav_data"
    /\ ~fcOut.raised
    /\ Len(fcArgs.nav_data.rows) = 3
    /\ fcArgs.nav_data.rows[1].date = 2
    /\ fcArgs.nav_data.rows[2].nav = Unparsable
    /\ fcArgs.nav_data.rows[3].date = 1
    /\ Len(fcOut.rows) = 2
    /\ process_nav_data(AsTable(fcOut.rows)) = fcOut.rows

\* a row whose date or nav is text that does not parse
Malformed(row) == row.date = Unparsable \/ row.nav = Unparsable
Parses(row) == ~Malformed(row)

\* C20: process_nav_data never propagates an exception for malformed rows: a
\* row whose date or nav cannot be parsed is dropped, and the rest is returned
C20_MalformedRowsDropped ==
    (fcOp = "process_nav_data" /\ Recognised(fcArgs.nav_data)) =>
        /\ ~fcOut.raised
        /\ fcOut.rows = process_nav_data(
                [fcArgs.nav_data EXCEPT !.rows = SelectSeq(fcArgs.nav_data.rows, Parses)])

-----
(* src/workflow/fund_analysis.py : _analyze_fund_type and its worker tasks *)
(*                                                                         *)
(* The batch is funds_to_analyze, a row per fund; the code of a fund is    *)
(* the number of its row (the codes of a fund list are all different and   *)
(* none is empty).  What the storage and the collectors hold for a fund is *)
(* given with its row.                                                     *)

\* the size of the batch, of the worker pool and of the ranking kept
NumFunds == 3
MaxWorkers == 2
TopN == 2

\* the default of _analyze_fund_type's limit
limit == 50

\* a limit below the number of funds of the category
CutLimit == 2
Limits == {CutLimit, limit}

Min(a, b) == IF a < b THEN a ELSE b
Range(q) == {q[i] : i \in DOMAIN q}

\* a fund's NAV history: n clean daily rows under the collector's column names
WfNav(n) ==
    [n |-> n, stride |-> 1, dirty |-> FALSE, date_col |-> "jingzhi_riqi",
     nav_col |-> "danwei_jingzhi", acc_col |-> "leiji_jingzhi"]

NoHoldings == [none |-> TRUE, ratios |-> <<>>]
TopHoldings == [none |-> FALSE, ratios |-> <<950, 800, 720, 610, 540, 430, 390, 310, 250, 120>>]

\* storage_raises: load_nav_data or load_fund_info raises; scale, tenure_years
\* and manager_tenure: what _extract_scale, _extract_tenure and
\* _extract_manager_tenure read out of the fund's info
FundEnv(storage_raises, n, scale, tenure_years, manager_tenure, holdings, stats) ==
    [storage_raises |-> storage_raises, nav |-> WfNav(n), scale |-> scale,
     tenure_years |-> tenure_years, manager_tenure |-> manager_tenure,
     holdings |-> holdings, stats |-> stats]

EnvRaises == FundEnv(TRUE, 40, 500, 400, 500, NoHoldings, StatsSteady)
EnvNoNav == FundEnv(FALSE, 0, 500, 400, 500, NoHoldings, StatsSteady)
EnvStrong == FundEnv(FALSE, 40, 500, 400, 500, TopHoldings, StatsSteady)
EnvModest == FundEnv(FALSE, 40, 300, 350, 210, NoHoldings, StatsSteady)
EnvWild == FundEnv(FALSE, 40, 500, 400, 500, TopHoldings, StatsWild)
EnvVeteran == FundEnv(FALSE, 250, 800, 900, 300, TopHoldings, StatsSteady)
FundEnvs == {EnvRaises, EnvNoNav, EnvStrong, EnvModest, EnvWild, EnvVeteran}

FundTypes == {"mixed", "bond"}

\* what a task's future holds
TaskPending == [kind |-> "pending"]
TaskRaised == [kind |-> "raised"]
TaskNone == [kind |-> "none"]
TaskOk(factors, data) == [kind |-> "ok", factors |-> factors, data |-> data]

\* _get_fund_factors: (None, None) without NAV data or when the factor
\* calculation raises, else (factors, fund_data)
_get_fund_factors(fund_code, env, benchmark) ==
    IF env.storage_raises THEN TaskRaised
    ELSE IF env.nav.n = 0 THEN TaskNone
    ELSE LET fund_data == [fund_code |-> fund_code, scale |-> env.scale,
                           tenure_years |-> env.tenure_years,
                           manager_tenure |-> env.manager_tenure]
             calc == calculate_all_factors(NavTable(env.nav), benchmark, fund_data,
                                           env.holdings, env.stats)
         IN  IF calc.raised THEN TaskNone
             ELSE TaskOk(Update(calc.factors, fund_data), fund_data)

\* self.benchmark_data after run_full_analysis has asked for the index
WfBenchmarks == {BenchFailed, BenchDaily}

\* what the task of each row returns, tabulated over the model's inputs
TaskResult ==
    [fund_code \in 1..NumFunds |->
        [env \in FundEnvs |->
            [benchmark \in WfBenchmarks |-> _get_fund_factors(fund_code, env, benchmark)]]]

\* filter_batch: the funds that pass and those that do not, each in input order
IsPassedRow(row) == row.is_passed
IsFailedRow(row) == ~row.is_passed
FundOf(rows) == [i \in DOMAIN rows |-> rows[i].fund]
CheckedRow(fund, verdict) ==
    [fund |-> fund, raised |-> verdict.raised, is_passed |-> verdict.passed]
Partition(checked) ==
    [raised |-> \E i \in DOMAIN checked : checked[i].raised,
     passed_funds |-> FundOf(SelectSeq(checked, IsPassedRow)),
     failed_funds |-> FundOf(SelectSeq(checked, IsFailedRow))]
PreFilter_filter_batch(cfg, funds_data) ==
    Partition([i \in DOMAIN funds_data |->
                    CheckedRow(funds_data[i], PreFilter_filter_single(cfg, funds_data[i]))])

\* {**funds_data.get(code, {}), **factors, 'fund_code': code}
PrefilterInput(item) ==
    Update(Update(item.data, item.factors), [fund_code |-> item.fund_code])

\* mutant: every analysed fund is scored
PassedFactors_all(funds_factors, passed_codes) == funds_factors

\* {code: factors for code, factors in funds_factors.items() if code in passed_codes}
PassedFactors(funds_factors, passed_codes) ==
    LET InPassed(item) == item.fund_code \in passed_codes
    IN  SelectSeq(funds_factors, InPassed)

\* scores_df.head(top_n), top_n positive
head(df, n) == SubSeq(df, 1, Min(n, Len(df)))

\* mutant: the loop is left once a future has been handed out
as_completed_exhausted_early(submitted, yielded) == yielded # {}

\* "for future in as_completed(futures)" has run out: every future was handed
\* out (and the with block is left, which waits for every task)
as_completed_exhausted(submitted, yielded) == \A f \in Range(submitted) : f \in yielded

\* mutant: every completed task counts as analysed
statistics_analyzed_completed(items, completed) == completed

\* result['statistics']['analyzed'] = len(funds_factors)
statistics_analyzed(items, completed) == Len(items)

\* mutant: the limit is ignored
max_analyze_all(lim, funds) == Len(funds)

\* max_analyze = min(limit, len(funds)), the rows funds.head keeps
max_analyze(lim, funds) == Min(lim, Len(funds))

Running == {f \in DOMAIN wfTasks : wfTasks[f].state = "running"}

Init ==
    /\ IdlePF
    /\ IdleFC
    /\ IdleSC /\ IdleRC /\ IdlePM /\ IdleRA
    /\ IdleGF
    /\ wfPc = "submit"
    /\ wfFunds \in [1..NumFunds -> FundEnvs]
    /\ wfFundType \in FundTypes
    /\ wfLimit \in Limits
    /\ wfBenchmark \in WfBenchmarks
    /\ wfFutures = <<>>
    /\ wfTasks = [f \in 1..NumFunds |-> [state |-> "new", result |-> TaskPending]]
    /\ wfYielded = {}
    /\ wfFundsFactors = <<>>
    /\ wfCompleted = 0
    /\ wfFailed = 0
    /\ wfPassedFunds = <<>>
    /\ wfResult = [top_funds |-> <<>>,
                   scores_df |-> [none |-> TRUE, rows |-> <<>>],
                   statistics |-> [total |-> NumFunds, analyzed |-> 0,
                                   passed_prefilter |-> 0]]

\* executor.submit(self._get_fund_factors, fund_code, use_cache) for the next row
Submit ==
    /\ UNCHANGED <<pfVars, fcVars, scVars, gfVars, raVars, pmVars, rcVars>>
    /\ wfPc = "submit"
    /\ LET fund_code == Len(wfFutures) + 1
       IN  /\ fund_code <= max_analyze(wfLimit, wfFunds)
           /\ wfFutures' = Append(wfFutures, fund_code)
           /\ wfTasks' = [wfTasks EXCEPT ![fund_code].state = "queued"]
           /\ wfPc' = IF fund_code = max_analyze(wfLimit, wfFunds) THEN "collect" ELSE "submit"
    /\ UNCHANGED <<wfFunds, wfFundType, wfLimit, wfBenchmark, wfYielded, wfFundsFactors,
                   wfCompleted, wfFailed, wfPassedFunds, wfResult>>

\* a free worker thread takes the oldest queued task
WorkerStart ==
    /\ UNCHANGED <<pfVars, fcVars, scVars, gfVars, raVars, pmVars, rcVars>>
    /\ Cardinality(Running) < MaxWorkers
    /\ \E i \in DOMAIN wfFutures :
          /\ wfTasks[wfFutures[i]].state = "queued"
          /\ \A j \in 1..(i - 1) : wfTasks[wfFutures[j]].state # "queued"
          /\ wfTasks' = [wfTasks EXCEPT ![wfFutures[i]].state = "running"]
    /\ UNCHANGED <<wfPc, wfFunds, wfFundType, wfLimit, wfBenchmark, wfFutures, wfYielded,
                   wfFundsFactors, wfCompleted, wfFailed, wfPassedFunds, wfResult>>

\* a task returns or raises
WorkerFinish ==
    /\ UNCHANGED <<pfVars, fcVars, scVars, gfVars, raVars, pmVars, rcVars>>
    /\ \E fund_code \in Running :
          wfTasks' = [wfTasks EXCEPT ![fund_code] =
                        [state |-> "done",
                         result |-> TaskResult[fund_code][wfFunds[fund_code]][wfBenchmark]]]
    /\ UNCHANGED <<wfPc, wfFunds, wfFundType, wfLimit, wfBenchmark, wfFutures, wfYielded,
                   wfFundsFactors, wfCompleted, wfFailed, wfPassedFunds, wfResult>>

\* one turn of the as_completed loop, on a future that is done
Collect ==
    /\ UNCHANGED <<pfVars, fcVars, scVars, gfVars, raVars, pmVars, rcVars>>
    /\ wfPc = "collect"
    /\ \E fund_code \in Range(wfFutures) \ wfYielded :
          /\ wfTasks[fund_code].state = "done"
          /\ wfYielded' = wfYielded \cup {fund_code}
          /\ wfCompleted' = wfCompleted + 1
          /\ LET r == wfTasks[fund_code].result
             IN  IF r.kind = "ok" /\ DOMAIN r.factors # {}
                 THEN /\ wfFundsFactors' = Append(wfFundsFactors,
                            [fund_code |-> fund_code, factors |-> r.factors,
                             data |-> r.data])
                      /\ wfFailed' = wfFailed
                 ELSE /\ wfFundsFactors' = wfFundsFactors
                      /\ wfFailed' = wfFailed + 1
    /\ UNCHANGED <<wfPc, wfFunds, wfFundType, wfLimit, wfBenchmark, wfFutures, wfTasks,
                   wfPassedFunds, wfResult>>

\* the loop and the with block are left; statistics.analyzed is set and the
\* batch ends here when no fund has factors
LeaveExecutor ==
    /\ UNCHANGED <<pfVars, fcVars, scVars, gfVars, raVars, pmVars, rcVars>>
    /\ wfPc = "collect"
    /\ as_completed_exhausted(wfFutures, wfYielded)
    /\ wfResult' = [wfResult EXCEPT !.statistics.analyzed =
                        statistics_analyzed(wfFundsFactors, wfCompleted)]
    /\ wfPc' = IF Len(wfFundsFactors) = 0 THEN "done" ELSE "prefilter"
    /\ UNCHANGED <<wfFunds, wfFundType, wfLimit, wfBenchmark, wfFutures, wfTasks, wfYielded,
                   wfFundsFactors, wfCompleted, wfFailed, wfPassedFunds>>

\* what _analyze_fund_type does with filter_batch's answer; an exception of a
\* rule is not caught and ends the call
AfterFilterBatch(batch) ==
    IF batch.raised
    THEN /\ wfPc' = "raised"
         /\ UNCHANGED <<wfPassedFunds, wfResult>>
    ELSE /\ wfPc' = "score"
         /\ wfPassedFunds' = [i \in DOMAIN batch.passed_funds |->
                                 batch.passed_funds[i].fund_code]
         /\ wfResult' = [wfResult EXCEPT !.statistics.passed_prefilter =
                             Len(batch.passed_funds)]

\* self.pre_filter.filter_batch(prefilter_input)
PreFilterStep ==
    /\ UNCHANGED <<pfVars, fcVars, scVars, gfVars, raVars, pmVars, rcVars>>
    /\ wfPc = "prefilter"
    /\ AfterFilterBatch(PreFilter_filter_batch(ModeratePreFilter,
            [i \in DOMAIN wfFundsFactors |-> PrefilterInput(wfFundsFactors[i])]))
    /\ UNCHANGED <<wfFunds, wfFundType, wfLimit, wfBenchmark, wfFutures, wfTasks, wfYielded,
                   wfFundsFactors, wfCompleted, wfFailed>>

\* batch_score on the funds that passed, then the first top_n rows
ScoreStep ==
    /\ UNCHANGED <<pfVars, fcVars, scVars, gfVars, raVars, pmVars, rcVars>>
    /\ wfPc = "score"
    /\ LET passed_factors == PassedFactors(wfFundsFactors, Range(wfPassedFunds))
           scores_df == batch_score(get_scoring_config_for_type(wfFundType),
                                    passed_factors)
       IN  IF Len(passed_factors) > 0
           THEN wfResult' = [wfResult EXCEPT
                                !.scores_df = [none |-> FALSE, rows |-> scores_df],
                                !.top_funds = head(scores_df, TopN)]
           ELSE wfResult' = wfResult
    /\ wfPc' = "done"
    /\ UNCHANGED <<wfFunds, wfFundType, wfLimit, wfBenchmark, wfFutures, wfTasks, wfYielded,
                   wfFundsFactors, wfCompleted, wfFailed, wfPassedFunds>>

Next ==
    \/ Submit
    \/ WorkerStart
    \/ WorkerFinish
    \/ Collect
    \/ LeaveExecutor
    \/ PreFilterStep
    \/ ScoreStep

Spec == Init /\ [][Next]_vars

-----------------------------------------------------------------------------
(* Claims about the batch workflow, checked under Spec                     *)

Submitted == Range(wfFutures)
TaskDone(f) == wfTasks[f].state = "done"
ReturnedFactors == {f \in DOMAIN wfTasks : TaskDone(f) /\ wfTasks[f].result.kind = "ok"}
FailedTasks == {f \in DOMAIN wfTasks : TaskDone(f) /\ wfTasks[f].result.kind # "ok"}
AnalysedCodes == {wfFundsFactors[i].fund_code : i \in DOMAIN wfFundsFactors}
ScoredCodes == {wfResult.scores_df.rows[i].fund_code : i \in DOMAIN wfResult.scores_df.rows}
TopCodes == {wfResult.top_funds[i].fund_code : i \in DOMAIN wfResult.top_funds}
PastExecutor == wfPc \in {"prefilter", "score", "done", "raised"}

\* C2: tasks that return no factors or raise do not abort the batch: once the
\* executor is left, the funds collected are exactly the funds whose task
\* returned factors, statistics.analyzed is their number, and a failed fund is
\* never in scores_df or top_funds
C2_FailureIsolation ==
    /\ wfPc # "raised"
    /\ PastExecutor =>
          /\ AnalysedCodes = ReturnedFactors
          /\ Len(wfFundsFactors) = Cardinality(ReturnedFactors)
          /\ wfResult.statistics.analyzed = Cardinality(ReturnedFactors)
    /\ (ScoredCodes \cup TopCodes) \cap FailedTasks = {}

C2_Witness ==
    /\ wfPc = "done"
    /\ \E f \in FailedTasks : wfTasks[f].result.kind = "raised"
    /\ \E f \in FailedTasks : wfTasks[f].result.kind = "none"
    /\ wfResult.statistics.analyzed = 1
    /\ Len(wfResult.top_funds) = 1

\* the verdict of the workflow's pre-filter on a collected fund
Verdict(item) == PreFilter_filter_single(ModeratePreFilter, PrefilterInput(item)).passed
PassingCodes ==
    {wfFundsFactors[i].fund_code :
        i \in {j \in DOMAIN wfFundsFactors : Verdict(wfFundsFactors[j])}}

\* C3: only funds that passed the pre-filter are scored: every fund of scores_df
\* and of top_funds has a pre-filter verdict of True, and
\* statistics.passed_prefilter is the number of scored funds
C3_ScoresOnlyPassed ==
    wfPc = "done" =>
        /\ ScoredCodes \subseteq PassingCodes
        /\ TopCodes \subseteq PassingCodes
        /\ wfResult.statistics.passed_prefilter = Len(wfResult.scores_df.rows)

C3_Witness ==
    /\ wfPc = "done"
    /\ Len(wfResult.scores_df.rows) = 2
    /\ Cardinality(AnalysedCodes \ PassingCodes) = 1

\* C4: scores_df is ordered by total_score, highest first, with rank 1..n in that
\* order and one row per scored fund; top_funds is its first min(top_n, n) rows
C4_RankedByScore ==
    (wfPc = "done" /\ ~wfResult.scores_df.none) =>
        /\ \A i \in 1..(Len(wfResult.scores_df.rows) - 1) :
              wfResult.scores_df.rows[i].total_score
                >= wfResult.scores_df.rows[i + 1].total_score
        /\ \A i \in DOMAIN wfResult.scores_df.rows : wfResult.scores_df.rows[i].rank = i
        /\ Cardinality(ScoredCodes) = Len(wfResult.scores_df.rows)
        /\ ScoredCodes = Range(wfPassedFunds)
        /\ wfResult.top_funds =
              SubSeq(wfResult.scores_df.rows, 1,
                     Min(TopN, Len(wfResult.scores_df.rows)))

\* more funds are scored than are kept, and the best one was not the first
\* to be collected
C4_Witness ==
    /\ wfPc = "done"
    /\ Len(wfResult.scores_df.rows) > TopN
    /\ Len(wfResult.top_funds) = TopN
    /\ wfResult.scores_df.rows[1].total_score
         > wfResult.scores_df.rows[Len(wfResult.scores_df.rows)].total_score
    /\ wfResult.scores_df.rows[1].fund_code # wfPassedFunds[1]

\* C5: pre-filtering and scoring start only after every submitted task has
\* completed: no fund is filtered, scored or ranked while a task is queued or
\* running
C5_Barrier ==
    (\/ PastExecutor
     \/ Len(wfPassedFunds) > 0
     \/ ~wfResult.scores_df.none
     \/ Len(wfResult.top_funds) > 0)
        => /\ Len(wfFutures) = Min(wfLimit, Len(wfFunds))
           /\ \A f \in Submitted : TaskDone(f)

\* the pre-filter is about to run on a batch whose last task to be submitted
\* was not the last to be collected
C5_Witness ==
    /\ wfPc = "prefilter"
    /\ \A f \in Submitted : TaskDone(f)
    /\ Len(wfFundsFactors) = NumFunds
    /\ wfFundsFactors[1].fund_code = NumFunds

\* the funds collected, had their tasks completed in the order of submission
InSubmissionOrder(items) ==
    LET codes == {items[i].fund_code : i \in DOMAIN items}
        At(n) == CHOOSE c \in codes : Cardinality({b \in codes : b < c}) = n - 1
    IN  [n \in DOMAIN items |-> CHOOSE i \in Range(items) : i.fund_code = At(n)]

\* top_funds as _analyze_fund_type derives it from the collected funds
TopFundsFrom(items) ==
    LET batch == PreFilter_filter_batch(ModeratePreFilter,
                    [i \in DOMAIN items |-> PrefilterInput(items[i])])
        passed_codes == {batch.passed_funds[i].fund_code : i \in DOMAIN batch.passed_funds}
        scores_df == batch_score(get_scoring_config_for_type(wfFundType),
                                 PassedFactors(items, passed_codes))
    IN  head(scores_df, TopN)

\* C24: the batch result does not depend on the order in which the tasks
\* complete: top_funds (members, order and ranks) is what it would be had the
\* tasks completed in the order of their submission
C24_OrderIndependent ==
    (wfPc = "done" /\ ~wfResult.scores_df.none) =>
        wfResult.top_funds = TopFundsFrom(InSubmissionOrder(wfFundsFactors))

-----------------------------------------------------------------------------
(* The scoring model as a state machine: a caller picks one of its         *)
(* functions and its arguments, calls it, and reads the result.            *)

\* the FactorWeights of the default ScoringConfig
ConfiguredWeights ==
    Range(return_factors) \cup Range(risk_factors) \cup Range(risk_adjusted_factors)
        \cup Range(scale_factors) \cup Range(manager_factors) \cup Range(style_factors)

\* FactorWeights as a caller may build them: without bounds, with one bound
\* only, with equal bounds
OtherWeights ==
    { FactorWeight("score", 100, TRUE, NoneV, NoneV),
      FactorWeight("penalty", 100, FALSE, NoneV, NoneV),
      FactorWeight("floor_only", 50, TRUE, 0, NoneV),
      FactorWeight("cap_only", 50, FALSE, NoneV, 10000),
      FactorWeight("flat", 50, TRUE, 5000, 5000) }

\* raw factor values: below, on, inside and above every configured range
RawValues ==
    {NaN, NoneV, -20000, -5001, -5000, -2500, -101, -100, -1, 0, 1, 50, 100, 150,
     299, 300, 400, 1500, 2999, 3000, 4999, 5000, 5001, 7500, 9999, 10000, 10001,
     20000, 20001, Inf}

\* the values a factor map of a category call holds under one key
KeyValues(fw) ==
    {Absent, NaN, fw.min_value - 1, fw.min_value,
     (fw.min_value + fw.max_value) \div 2, (fw.min_value + 2 * fw.max_value) \div 3,
     fw.max_value, fw.max_value + 1}

CategoryLists ==
    {return_factors, risk_factors, risk_adjusted_factors, scale_factors,
     manager_factors, style_factors}

\* the factor maps over the keys of one category, a key present or not
CategoryMaps(factor_weights) ==
    { MkDict([k \in {factor_weights[i].name : i \in DOMAIN factor_weights} |->
                f[CHOOSE i \in DOMAIN factor_weights : factor_weights[i].name = k]])
        : f \in [DOMAIN factor_weights -> UNION {KeyValues(factor_weights[i]) :
                                                    i \in DOMAIN factor_weights}] }

Configs ==
    {ScoringConfig, IndexFundScoringConfig, ActiveFundScoringConfig, BondFundScoringConfig}

Categories ==
    << return_factors, risk_factors, risk_adjusted_factors, scale_factors,
       manager_factors, style_factors >>

Levels == {"low", "mid", "high", "mixed"}

\* the value of the i-th factor of a category that stands at a level: mixed is
\* NaN for the first factor, infinite for the second, three quarters for a third
LevelValue(fw, i, level) ==
    CASE level = "low" -> fw.min_value - 100
      [] level = "mid" -> (fw.min_value + fw.max_value) \div 2
      [] level = "high" -> fw.max_value + 100
      [] level = "mixed" ->
            IF i = 1 THEN NaN
            ELSE IF i = 2 THEN Inf
            ELSE (fw.min_value + 3 * fw.max_value) \div 4

FactorNames == {fw.name : fw \in ConfiguredWeights}

\* a complete factor map: every configured key present, the keys of category c
\* at the level levels[c]
CompleteMap(levels) ==
    [k \in FactorNames |->
        LET c == CHOOSE c \in 1..6 : \E i \in DOMAIN Categories[c] : Categories[c][i].name = k
            i == CHOOSE i \in DOMAIN Categories[c] : Categories[c][i].name = k
        IN  LevelValue(Categories[c][i], i, levels[c])]

\* the factor maps handed to get_recommendation
RecommendationInputs ==
    [return_1y : {Absent, -100, 1000, 3001},
     max_drawdown : {Absent, -3001, -1000},
     volatility : {Absent, NaN, 3001},
     sharpe_ratio : {Absent, NoneV, 49, 100, 151},
     manager_tenure : {Absent, 199, 300, 500},
     scale : {Absent, 199, 500, 20001}]

Scores == {4500, 5000, 6500, 7000, 8000}

InitSC == IdlePF /\ IdleFC /\ IdleSC /\ IdleRC /\ IdlePM /\ IdleRA /\ IdleWF /\ IdleGF

CallNormalize ==
    /\ UNCHANGED <<pfVars, fcVars, wfVars, gfVars, raVars, pmVars, rcVars>>
    /\ scOp = "idle"
    /\ \E fw \in ConfiguredWeights \cup OtherWeights, value \in RawValues :
          /\ scOp' = "normalize"
          /\ scArgs' = [fw |-> fw, value |-> value]
          /\ scOut' = normalize(fw, value)

CallCategoryScore ==
    /\ UNCHANGED <<pfVars, fcVars, wfVars, gfVars, raVars, pmVars, rcVars>>
    /\ scOp = "idle"
    /\ \E factor_weights \in CategoryLists :
          \E factors \in CategoryMaps(factor_weights) :
              /\ scOp' = "calculate_category_score"
              /\ scArgs' = [factors |-> factors, factor_weights |-> factor_weights]
              /\ scOut' = calculate_category_score(factors, factor_weights)

CallTotalScore ==
    /\ UNCHANGED <<pfVars, fcVars, wfVars, gfVars, raVars, pmVars, rcVars>>
    /\ scOp = "idle"
    /\ \E config \in Configs, levels \in [1..6 -> Levels] :
          /\ scOp' = "calculate_total_score"
          /\ scArgs' = [config |-> config, factors |-> CompleteMap(levels)]
          /\ scOut' = [total_score |-> calculate_total_score(config, CompleteMap(levels)),
                       category_scores |-> category_scores(CompleteMap(levels))]

CallGetRecommendation ==
    /\ UNCHANGED <<pfVars, fcVars, wfVars, gfVars, raVars, pmVars, rcVars>>
    /\ scOp = "idle"
    /\ \E score \in Scores, f \in RecommendationInputs :
          /\ scOp' = "get_recommendation"
          /\ scArgs' = [score |-> score, factors |-> MkDict(f)]
          /\ scOut' = get_recommendation(score, MkDict(f))

\* the caller has read the result
ReturnSC ==
    /\ UNCHANGED <<pfVars, fcVars, wfVars, gfVars, raVars, pmVars, rcVars>>
    /\ scOp # "idle"
    /\ scOp' = "idle"
    /\ scArgs' = <<>>
    /\ scOut' = <<>>

NextSC ==
    \/ CallNormalize
    \/ CallCategoryScore
    \/ CallTotalScore
    \/ CallGetRecommendation
    \/ ReturnSC

SpecScoring == InitSC /\ [][NextSC]_vars

-----------------------------------------------------------------------------
(* Claims about the scoring model, checked under SpecScoring               *)

Finite(value) == value # NaN /\ value # NoneV

\* C12: normalize returns a value in [0, 100] for every finite input and every
\* FactorWeight of the default configuration, with or without bounds and in
\* either direction, and the neutral 50 for a NaN or missing value
C12_NormalizeRange ==
    scOp = "normalize" =>
        /\ 0 <= scOut /\ scOut <= 10000
        /\ ~Finite(scArgs.value) => scOut = 5000

\* a configured lower-is-better factor normalised from a value beyond its range
C12_Witness ==
    /\ scOp = "normalize"
    /\ scArgs.fw \in ConfiguredWeights
    /\ ~scArgs.fw.higher_is_better
    /\ scArgs.value > scArgs.fw.max_value
    /\ scArgs.value # Inf
    /\ scOut = 0

CategoryWeightSum(config) ==
    config.return_weight + config.risk_weight + config.risk_adjusted_weight
        + config.scale_weight + config.manager_weight + config.style_weight

\* C13: for the base, index, active and bond configurations, whose six category
\* weights sum to 1, and every complete factor map, calculate_total_score
\* returns a total_score in [0, 100] and six category scores in [0, 100]
C13_TotalScoreRange ==
    /\ \A config \in Configs : CategoryWeightSum(config) = 100
    /\ scOp = "calculate_total_score" =>
        /\ DOMAIN scArgs.factors = FactorNames
        /\ 0 <= scOut.total_score /\ scOut.total_score <= 10000
        /\ \A c \in 1..6 : 0 <= scOut.category_scores[c] /\ scOut.category_scores[c] <= 10000

\* a bond-fund score over a map whose categories reach both ends of the scale
C13_Witness ==
    /\ scOp = "calculate_total_score"
    /\ scArgs.config = BondFundScoringConfig
    /\ \E c \in 1..6 : scOut.category_scores[c] = 0
    /\ \E c \in 1..6 : scOut.category_scores[c] = 10000
    /\ scOut.total_score > 5000

\* a FactorWeight whose range, if it has one, runs upwards
WellFormed(fw) ==
    (fw.min_value # NoneV /\ fw.max_value # NoneV) => fw.min_value <= fw.max_value

\* the higher-is-better factors of a list that a factor map holds a finite value of
Raisable(factors, factor_weights) ==
    {i \in DOMAIN factor_weights :
        /\ factor_weights[i].higher_is_better
        /\ factor_weights[i].weight > 0
        /\ factor_weights[i].name \in DOMAIN factors
        /\ Finite(factors[factor_weights[i].name])}

\* the finite values a factor can be raised to from a value
RaisedFrom(fw, value) == {v \in KeyValues(fw) \cup {value + 1, Inf} : Finite(v) /\ v # Absent /\ v >= value}

Present(factors, factor_weights) ==
    {i \in DOMAIN factor_weights : factor_weights[i].name \in DOMAIN factors}

\* C15: calculate_category_score is the weight-weighted mean of
\* normalize(value) over the configured factors whose key is in the factor map
\* (an absent factor adds neither a value nor its weight), and 50 when none is
C15_WeightedMean ==
    scOp = "calculate_category_score" =>
        LET fws == scArgs.factor_weights
            present == Present(scArgs.factors, fws)
            weights == SumSeq([i \in DOMAIN fws |->
                            IF i \in present THEN fws[i].weight ELSE 0])
            values == SumSeq([i \in DOMAIN fws |->
                            IF i \in present
                            THEN fws[i].weight * normalize(fws[i], scArgs.factors[fws[i].name])
                            ELSE 0])
        IN  IF present = {} THEN scOut = 5000 ELSE scOut = values \div weights

\* a category of three factors scored from the only one that is present
C15_Witness ==
    /\ scOp = "calculate_category_score"
    /\ scArgs.factor_weights = return_factors
    /\ DOMAIN scArgs.factors = {"return_3y"}
    /\ scArgs.factors["return_3y"] = 20000
    /\ scOut = 10000

\* the reasons and risks of a recommendation that speak of a factor
RemarksOn(out, factor) ==
    {i \in DOMAIN out.reasons : out.reasons[i].factor = factor}
        \cup {i \in DOMAIN out.risks : out.risks[i].factor = factor}

\* C16: get_recommendation treats an absent factor as unknown, not as zero: for
\* a map lacking sharpe_ratio, manager_tenure, scale or return_1y it adds no
\* reason and no risk for that factor
C16_AbsentIsUnknown ==
    (scOp = "get_recommendation" /\ ~scOut.raised) =>
        \A factor \in {"sharpe_ratio", "manager_tenure", "scale", "return_1y"} :
            factor \notin DOMAIN scArgs.factors => RemarksOn(scOut, factor) = {}

-----------------------------------------------------------------------------
(* src/workflow/fund_analysis.py : _get_fund_factors, statement by         *)
(* statement, with the calls it makes on the storage and the collectors.   *)
(*                                                                         *)
(* A value is "none" (None), "empty" (an empty table or dict) or "data".   *)
(* A cache entry that is missing or too old is "none": load_* return None. *)

\* what the collectors answer for the fund ("raise": the call raises)
GfEnvs ==
    [use_cache : BOOLEAN,
     get_fund_nav_history : {"raise", "none", "empty", "data"},
     get_fund_detail : {"raise", "empty", "info", "info_holdings"},
     get_fund_basic_info : {"raise", "empty", "data"},
     get_fund_holdings : {"raise", "none", "data"}]

\* what the storage holds for the fund
GfCaches ==
    [nav : {"none", "empty", "data"}, info : {"none", "data"}, holdings : {"none", "data"}]

\* a call and what it returned
Called(call, got) == [call |-> call, got |-> got]

\* a call of _get_fund_factors(fund_code, use_cache) begins
InitGF ==
    /\ IdlePF /\ IdleFC /\ IdleSC /\ IdleRC /\ IdlePM /\ IdleRA /\ IdleWF
    /\ gfPc = "load_nav_data"
    /\ gfEnv \in GfEnvs
    /\ gfCache \in GfCaches
    /\ gfLocals = [nav_data |-> "none", fund_info |-> "none", current_holdings |-> "none"]
    /\ gfCalls = <<>>

\* if use_cache: nav_data = self.storage.load_nav_data(fund_code)
LoadNavData ==
    /\ UNCHANGED <<pfVars, fcVars, scVars, wfVars, raVars, pmVars, rcVars>>
    /\ gfPc = "load_nav_data"
    /\ gfPc' = "get_fund_nav_history"
    /\ UNCHANGED <<gfEnv, gfCache>>
    /\ IF gfEnv.use_cache
       THEN /\ gfLocals' = [gfLocals EXCEPT !.nav_data = gfCache.nav]
            /\ gfCalls' = Append(gfCalls, Called("storage.load_nav_data", gfCache.nav))
       ELSE UNCHANGED <<gfLocals, gfCalls>>

\* if nav_data is None: try: fetch it, and save it when it is not empty
GetFundNavHistory ==
    /\ UNCHANGED <<pfVars, fcVars, scVars, wfVars, raVars, pmVars, rcVars>>
    /\ gfPc = "get_fund_nav_history"
    /\ gfPc' = "check_nav_data"
    /\ UNCHANGED gfEnv
    /\ IF gfLocals.nav_data = "none"
       THEN LET got == gfEnv.get_fund_nav_history
                fetched == Append(gfCalls, Called("akshare.get_fund_nav_history", got))
            IN  /\ gfLocals' = [gfLocals EXCEPT
                                    !.nav_data = IF got = "raise" THEN "none" ELSE got]
                /\ IF got = "data"
                   THEN /\ gfCache' = [gfCache EXCEPT !.nav = "data"]
                        /\ gfCalls' = Append(fetched, Called("storage.save_nav_data", "saved"))
                   ELSE /\ gfCache' = gfCache
                        /\ gfCalls' = fetched
       ELSE UNCHANGED <<gfLocals, gfCache, gfCalls>>

\* if nav_data is None or nav_data.empty: return None, None
CheckNavData ==
    /\ UNCHANGED <<pfVars, fcVars, scVars, wfVars, raVars, pmVars, rcVars>>
    /\ gfPc = "check_nav_data"
    /\ gfPc' = IF gfLocals.nav_data \in {"none", "empty"} THEN "done" ELSE "get_fund_detail"
    /\ UNCHANGED <<gfEnv, gfCache, gfLocals, gfCalls>>

\* try: em_detail = self.eastmoney.get_fund_detail(fund_code) ...
GetFundDetail ==
    /\ UNCHANGED <<pfVars, fcVars, scVars, wfVars, raVars, pmVars, rcVars>>
    /\ gfPc = "get_fund_detail"
    /\ gfPc' = "load_fund_info"
    /\ UNCHANGED <<gfEnv, gfCache>>
    /\ gfCalls' = Append(gfCalls, Called("eastmoney.get_fund_detail",
                    IF gfEnv.get_fund_detail \in {"info", "info_holdings"} THEN "data"
                    ELSE gfEnv.get_fund_detail))
    /\ gfLocals' = [gfLocals EXCEPT
            !.fund_info = IF gfEnv.get_fund_detail \in {"info", "info_holdings"}
                          THEN "data" ELSE "none",
            !.current_holdings = IF gfEnv.get_fund_detail = "info_holdings"
                                 THEN "data" ELSE "none"]

\* if use_cache and not fund_info: fund_info = self.storage.load_fund_info(fund_code)
LoadFundInfo ==
    /\ UNCHANGED <<pfVars, fcVars, scVars, wfVars, raVars, pmVars, rcVars>>
    /\ gfPc = "load_fund_info"
    /\ gfPc' = "get_fund_basic_info"
    /\ UNCHANGED <<gfEnv, gfCache>>
    /\ IF gfEnv.use_cache /\ gfLocals.fund_info \in {"none", "empty"}
       THEN /\ gfLocals' = [gfLocals EXCEPT !.fund_info = gfCache.info]
            /\ gfCalls' = Append(gfCalls, Called("storage.load_fund_info", gfCache.info))
       ELSE UNCHANGED <<gfLocals, gfCalls>>

\* if fund_info is None: try: fetch it, and save it when it is not empty
GetFundBasicInfo ==
    /\ UNCHANGED <<pfVars, fcVars, scVars, wfVars, raVars, pmVars, rcVars>>
    /\ gfPc = "get_fund_basic_info"
    /\ gfPc' = "get_fund_holdings"
    /\ UNCHANGED gfEnv
    /\ IF gfLocals.fund_info = "none"
       THEN LET got == gfEnv.get_fund_basic_info
                fetched == Append(gfCalls, Called("akshare.get_fund_basic_info", got))
            IN  /\ gfLocals' = [gfLocals EXCEPT
                                    !.fund_info = IF got = "raise" THEN "none" ELSE got]
                /\ IF got = "data"
                   THEN /\ gfCache' = [gfCache EXCEPT !.info = "data"]
                        /\ gfCalls' = Append(fetched, Called("storage.save_fund_info", "saved"))
                   ELSE /\ gfCache' = gfCache
                        /\ gfCalls' = fetched
       ELSE UNCHANGED <<gfLocals, gfCache, gfCalls>>

\* if current_holdings is None: try: current_holdings = get_fund_holdings(fund_code)
GetFundHoldings ==
    /\ UNCHANGED <<pfVars, fcVars, scVars, wfVars, raVars, pmVars, rcVars>>
    /\ gfPc = "get_fund_holdings"
    /\ gfPc' = "calculate_all_factors"
    /\ UNCHANGED <<gfEnv, gfCache>>
    /\ IF gfLocals.current_holdings = "none"
       THEN LET got == gfEnv.get_fund_holdings
            IN  /\ gfLocals' = [gfLocals EXCEPT
                        !.current_holdings = IF got = "raise" THEN "none" ELSE got]
                /\ gfCalls' = Append(gfCalls, Called("akshare.get_fund_holdings", got))
       ELSE UNCHANGED <<gfLocals, gfCalls>>

\* fund_data is built, the factors computed and returned: no call on the
\* storage or on a collector
CalculateFactors ==
    /\ UNCHANGED <<pfVars, fcVars, scVars, wfVars, raVars, pmVars, rcVars>>
    /\ gfPc = "calculate_all_factors"
    /\ gfPc' = "done"
    /\ UNCHANGED <<gfEnv, gfCache, gfLocals, gfCalls>>

NextGF ==
    \/ LoadNavData
    \/ GetFundNavHistory
    \/ CheckNavData
    \/ GetFundDetail
    \/ LoadFundInfo
    \/ GetFundBasicInfo
    \/ GetFundHoldings
    \/ CalculateFactors

SpecCache == InitGF /\ [][NextGF]_vars

-----------------------------------------------------------------------------
(* The claim about the cache, checked under SpecCache                      *)

Kinds == {"nav", "info", "holdings"}

\* the storage's read and write of a kind of data, and the collectors' calls
\* that fetch it from upstream
LoadCall(kind) ==
    CASE kind = "nav" -> "storage.load_nav_data"
      [] kind = "info" -> "storage.load_fund_info"
      [] kind = "holdings" -> "storage.load_holdings"
SaveCall(kind) ==
    CASE kind = "nav" -> "storage.save_nav_data"
      [] kind = "info" -> "storage.save_fund_info"
      [] kind = "holdings" -> "storage.save_holdings"
FetchCalls(kind) ==
    CASE kind = "nav" -> {"akshare.get_fund_nav_history"}
      [] kind = "info" -> {"eastmoney.get_fund_detail", "akshare.get_fund_basic_info"}
      [] kind = "holdings" -> {"akshare.get_fund_holdings"}

\* the discipline for one kind of data, on the calls made so far: a fetch comes
\* after a read of the cache that missed, and a fetch that brought data is
\* followed by a write of the cache
Disciplined(kind) ==
    \A i \in DOMAIN gfCalls :
        gfCalls[i].call \in FetchCalls(kind) =>
            /\ \E j \in 1..(i - 1) :
                    gfCalls[j].call = LoadCall(kind) /\ gfCalls[j].got = "none"
            /\ gfCalls[i].got = "data" =>
                    \E j \in (i + 1)..Len(gfCalls) : gfCalls[j].call = SaveCall(kind)

\* C17: with use_cache=True, for each kind of data (NAV, fund info, holdings)
\* the cache entry is checked before any upstream fetch, an upstream fetch
\* happens only after a cache miss, and each non-empty fetched result is
\* written to the cache after it is fetched
C17_CacheDiscipline ==
    (gfPc # "idle" /\ gfEnv.use_cache) => \A kind \in Kinds : Disciplined(kind)

\* ---------------------------------------------------------------------------
\* run_full_analysis: fund list, purchasable filter, categories, per-type loop
\* ---------------------------------------------------------------------------

\* a fund type is the sequence of the words of its label; pinyin stands for
\* the Chinese words ("gupiao" "xing" is the label of an equity fund)
GuPiaoXing == <<"gupiao", "xing">>
HunHeXing == <<"hunhe", "xing">>
ZhiShuXing == <<"zhishu", "xing">>
ZhaiQuanXing == <<"zhaiquan", "xing">>
NoType == <<"nan">>

\* str.contains / `in`: the words of part appear in label one after another
Contains(label, part) ==
    \E at \in 0..(Len(label) - Len(part)) :
        \A k \in 1..Len(part) : label[at + k] = part[k]

DefaultFundTypes == <<GuPiaoXing, HunHeXing, ZhiShuXing, ZhaiQuanXing>>

ALLOWED_TYPES ==
    {GuPiaoXing, HunHeXing, ZhaiQuanXing, ZhiShuXing, <<"huobi", "xing">>,
     <<"QDII">>, <<"FOF">>, <<"gupiao", "zhishu">>, <<"lianjie", "jijin">>,
     <<"lianjie">>, <<"gupiao", "xing", "-">>, <<"hunhe", "xing", "-">>,
     <<"zhaiquan", "xing", "-">>}

check_type(t) == t = NoType \/ \E at \in ALLOWED_TYPES : Contains(t, at)

\* a fund list: whether it has a type column, and its rows; excluded says the
\* name holds an excluded keyword or the code starts with an excluded prefix
filter_purchasable(fund_list) ==
    IF Len(fund_list.rows) = 0 THEN fund_list
    ELSE LET mask(row) == ~row.excluded /\ (fund_list.has_type => check_type(row.type))
         IN  [fund_list EXCEPT !.rows = SelectSeq(fund_list.rows, mask)]

OfKind(rows, part) ==
    LET has(row) == row.type # NoType /\ Contains(row.type, <<part>>)
    IN  SelectSeq(rows, has)

categorize_funds(fund_list) ==
    IF ~fund_list.has_type THEN [k \in {<<"all">>} |-> fund_list.rows]
    ELSE LET rows == fund_list.rows
             either(row) == row.type # NoType /\ (Contains(row.type, <<"zhishu">>) \/ Contains(row.type, <<"lianjie">>))
         IN  [k \in {<<"stock">>, <<"mixed">>, <<"bond">>, <<"index">>, <<"money">>, <<"qdii">>, <<"fof">>} |->
                 CASE k = <<"stock">> -> OfKind(rows, "gupiao")
                   [] k = <<"mixed">> -> OfKind(rows, "hunhe")
                   [] k = <<"bond">> -> OfKind(rows, "zhaiquan")
                   [] k = <<"index">> -> SelectSeq(rows, either)
                   [] k = <<"money">> -> OfKind(rows, "huobi")
                   [] k = <<"qdii">> -> OfKind(rows, "QDII")
                   [] k = <<"fof">> -> OfKind(rows, "FOF")]

MaxListed == 2
ListedTypes == {GuPiaoXing, HunHeXing, <<"zhishu", "xing", "-", "gupiao">>, <<"huobi", "xing">>, <<"qita">>, NoType}
ListedRows == [excluded : BOOLEAN, type : ListedTypes]
Listings == UNION {[1..n -> ListedRows] : n \in 0..MaxListed}
\* the fund_types argument: None, or a list of type names
FundTypesArgs ==
    {[is_none |-> TRUE, value |-> <<>>],
     [is_none |-> FALSE, value |-> <<<<"stock">>, <<"bond">>>>],
     [is_none |-> FALSE, value |-> <<<<"mixed">>, GuPiaoXing>>]}

InitRA == IdlePF /\ IdleFC /\ IdleSC /\ IdleRC /\ IdlePM /\ IdleWF /\ IdleGF /\ IdleRA

\* run_full_analysis up to the fund list: the default of fund_types, the empty
\* results, and the early return on an empty list
CallRunFullAnalysis ==
    /\ raPc = "idle"
    /\ \E fund_types \in FundTypesArgs, has_type \in BOOLEAN, rows \in Listings :
        /\ raFundTypes' = [given |-> fund_types,
                            todo |-> IF fund_types.is_none THEN DefaultFundTypes ELSE fund_types.value]
        /\ raFunds' = [has_type |-> has_type, rows |-> rows]
        /\ raPc' = IF Len(rows) = 0 THEN "done" ELSE "filter"
    /\ raResults' = [top_funds |-> EmptyDict, statistics |-> EmptyDict]
    /\ raCategorized' = <<>>
    /\ UNCHANGED <<pfVars, fcVars, scVars, wfVars, gfVars, pmVars, rcVars>>

FilterPurchasable ==
    /\ raPc = "filter"
    /\ raFunds' = filter_purchasable(raFunds)
    /\ raPc' = "categorize"
    /\ UNCHANGED <<raFundTypes, raCategorized, raResults>>
    /\ UNCHANGED <<pfVars, fcVars, scVars, wfVars, gfVars, pmVars, rcVars>>

CategorizeFunds ==
    /\ raPc = "categorize"
    /\ raCategorized' = categorize_funds(raFunds)
    /\ raPc' = "types"
    /\ UNCHANGED <<raFundTypes, raFunds, raResults>>
    /\ UNCHANGED <<pfVars, fcVars, scVars, wfVars, gfVars, pmVars, rcVars>>

\* one turn of the loop over fund_types: a type without a category, or with an
\* empty one, is skipped
SkipFundType ==
    /\ raPc = "types" /\ Len(raFundTypes.todo) > 0
    /\ LET fund_type == Head(raFundTypes.todo)
       IN  IF fund_type \in DOMAIN raCategorized THEN Len(raCategorized[fund_type]) = 0 ELSE TRUE
    /\ raFundTypes' = [raFundTypes EXCEPT !.todo = Tail(@)]
    /\ UNCHANGED <<raPc, raFunds, raCategorized, raResults>>
    /\ UNCHANGED <<pfVars, fcVars, scVars, wfVars, gfVars, pmVars, rcVars>>

\* ... any other is analysed; _analyze_fund_type answers with the funds it
\* ranked and its statistics
AnalyzeFundType ==
    /\ raPc = "types" /\ Len(raFundTypes.todo) > 0
    /\ LET fund_type == Head(raFundTypes.todo)
       IN  /\ fund_type \in DOMAIN raCategorized
           /\ Len(raCategorized[fund_type]) > 0
           /\ \E ranked \in 0..Len(raCategorized[fund_type]) :
                raResults' = [raResults EXCEPT
                    !.top_funds = Update(@, [k \in {fund_type} |-> ranked]),
                    !.statistics = Update(@, [k \in {fund_type} |-> [total |-> Len(raCategorized[fund_type])]])]
    /\ raFundTypes' = [raFundTypes EXCEPT !.todo = Tail(@)]
    /\ UNCHANGED <<raPc, raFunds, raCategorized>>
    /\ UNCHANGED <<pfVars, fcVars, scVars, wfVars, gfVars, pmVars, rcVars>>

FinishRunFullAnalysis ==
    /\ raPc = "types" /\ Len(raFundTypes.todo) = 0
    /\ raPc' = "done"
    /\ UNCHANGED <<raFundTypes, raFunds, raCategorized, raResults>>
    /\ UNCHANGED <<pfVars, fcVars, scVars, wfVars, gfVars, pmVars, rcVars>>

NextRA ==
    \/ CallRunFullAnalysis
    \/ FilterPurchasable
    \/ CategorizeFunds
    \/ SkipFundType
    \/ AnalyzeFundType
    \/ FinishRunFullAnalysis

SpecFullAnalysis == InitRA /\ [][NextRA]_vars

\* ---------------------------------------------------------------------------
\* Claim about run_full_analysis
\* ---------------------------------------------------------------------------

\* the purchasable funds whose type label holds the name of fund_type
FundsOfType(fund_type) ==
    {k \in DOMAIN raFunds.rows :
        raFunds.rows[k].type # NoType /\ Contains(raFunds.rows[k].type, fund_type)}

\* C23: when run_full_analysis called with the default fund_types is over,
\* every default type of which the purchasable fund list holds at least one
\* fund has a statistics entry and a top_funds entry in the results
C23_DefaultTypesAnalysed ==
    (raPc = "done" /\ raFundTypes.given.is_none /\ raFunds.has_type) =>
        \A fund_type \in Range(DefaultFundTypes) :
            FundsOfType(fund_type) # {} =>
                /\ fund_type \in DOMAIN raResults.statistics
                /\ fund_type \in DOMAIN raResults.top_funds

-----------------------------------------------------------------------------
(* src/models.py, src/portfolio/manager.py : the portfolio and its manager *)

\* Position and Portfolio: money and shares are whole units; cost_price and the
\* profit fields derived from it are read by no operation below and left out
Position(fund_code, fund_type, shares, price) ==
    [fund_code |-> fund_code, fund_type |-> fund_type, shares |-> shares,
     current_price |-> price, market_value |-> shares * price]

Position_update_price(position, current_price) ==
    [position EXCEPT !.current_price = current_price,
                     !.market_value = position.shares * current_price]

Portfolio(cash, positions, total_value) ==
    [cash |-> cash, positions |-> positions, total_value |-> total_value]

\* get_position: the place of the first position of the fund, 0 for None
Portfolio_get_position(portfolio, fund_code) ==
    LET held == {k \in DOMAIN portfolio.positions : portfolio.positions[k].fund_code = fund_code}
    IN  IF held = {} THEN 0 ELSE CHOOSE k \in held : \A j \in held : k <= j

RECURSIVE SumMarketValue(_)
SumMarketValue(positions) ==
    IF Len(positions) = 0 THEN 0
    ELSE Head(positions).market_value + SumMarketValue(Tail(positions))

Portfolio_calculate_total(portfolio) ==
    [portfolio EXCEPT !.total_value = portfolio.cash + SumMarketValue(portfolio.positions)]

\* a TradeRecord: the fields that are read again
TradeRecord(fund_code, trade_type, trade_date) ==
    [fund_code |-> fund_code, trade_type |-> trade_type, trade_date |-> trade_date]

\* what a manager call answers: its return value and the manager's new state
Answer(returned, portfolio, trade_history) ==
    [returned |-> returned, portfolio |-> portfolio, trade_history |-> trade_history]

initialize_portfolio(initial_cash) == Portfolio(initial_cash, <<>>, initial_cash)

\* mutant: the cash is not looked at
ExceedsCash_never(amount, cash) == FALSE

\* amount > self.portfolio.cash
ExceedsCash(amount, cash) == amount > cash

add_position(portfolio, trade_history, fund_code, fund_type, shares, price, today) ==
    LET amount == shares * price
        k == Portfolio_get_position(portfolio, fund_code)
        positions ==
            IF k # 0
            THEN [portfolio.positions EXCEPT ![k] =
                    Position_update_price([@ EXCEPT !.shares = @ + shares], price)]
            ELSE Append(portfolio.positions, Position(fund_code, fund_type, shares, price))
    IN  IF ExceedsCash(amount, portfolio.cash)
        THEN Answer(FALSE, portfolio, trade_history)
        ELSE Answer(TRUE,
                    Portfolio_calculate_total(
                        [portfolio EXCEPT !.positions = positions, !.cash = @ - amount]),
                    Append(trade_history, TradeRecord(fund_code, "BUY", today)))

Remove(positions, k) == SubSeq(positions, 1, k - 1) \o SubSeq(positions, k + 1, Len(positions))

reduce_position(portfolio, trade_history, fund_code, shares_asked, price, today) ==
    LET k == Portfolio_get_position(portfolio, fund_code)
    IN  IF k = 0 THEN Answer(FALSE, portfolio, trade_history)
        ELSE LET shares == Min(shares_asked, portfolio.positions[k].shares)
                 position == Position_update_price(
                                [portfolio.positions[k] EXCEPT !.shares = @ - shares], price)
                 positions == IF position.shares <= 0
                              THEN Remove(portfolio.positions, k)
                              ELSE [portfolio.positions EXCEPT ![k] = position]
             IN  Answer(TRUE,
                        Portfolio_calculate_total(
                            [portfolio EXCEPT !.positions = positions,
                                              !.cash = @ + shares * price]),
                        Append(trade_history, TradeRecord(fund_code, "SELL", today)))

\* price_dict is a function from some fund codes to prices
update_prices(portfolio, price_dict) ==
    Portfolio_calculate_total(
        [portfolio EXCEPT !.positions =
            [k \in DOMAIN @ |->
                IF @[k].fund_code \in DOMAIN price_dict
                THEN Position_update_price(@[k], price_dict[@[k].fund_code])
                ELSE @[k]]])

get_today_trades(trade_history, today) ==
    LET IsToday(t) == t.trade_date = today
    IN  SelectSeq(trade_history, IsToday)

-----------------------------------------------------------------------------
(* The portfolio as a state machine: the manager's operations, the engine's *)
(* position analysis, and a new process.                                    *)

\* the longest trade history the manager's operations are followed to
MaxTrades == 3
\* the last day the advisor is followed to; the first is day 0
MaxDay == 1
FundCodes == {"A", "B"}
\* fund_collector.detect_fund_type
FundTypeOf == [c \in FundCodes |-> IF c = "A" THEN "STOCK" ELSE "BOND"]
InitialCashes == {0, 3, 20}
Prices == {1, 2}
ShareCounts == {1, 2}
PriceDicts == UNION {[codes -> Prices] : codes \in SUBSET FundCodes}

EmptyPortfolio == Portfolio(0, <<>>, 0)

\* InvestmentAdvisor() where no file exists yet: an empty portfolio, which the
\* DecisionEngine is handed
InitPM ==
    /\ IdlePF /\ IdleFC /\ IdleSC /\ IdleRC /\ IdleWF /\ IdleGF /\ IdleRA
    /\ pmOp = "InvestmentAdvisor"
    /\ pmArgs = <<>>
    /\ pmOut = <<>>
    /\ pmPortfolio = EmptyPortfolio
    /\ pmTradeHistory = <<>>
    /\ pmFile = [portfolio |-> EmptyPortfolio, trade_history |-> <<>>]
    /\ dePortfolio = [shared |-> TRUE]
    /\ pmToday = 0

Others == <<pfVars, fcVars, scVars, wfVars, gfVars, raVars, rcVars>>

\* initialize_portfolio: a new Portfolio object, saved; the engine keeps the
\* object it was handed, which the manager no longer reaches
InitializePortfolio ==
    /\ \E initial_cash \in InitialCashes :
        /\ pmOp' = "initialize_portfolio"
        /\ pmArgs' = [initial_cash |-> initial_cash]
        /\ pmPortfolio' = initialize_portfolio(initial_cash)
    /\ pmOut' = <<>>
    /\ pmFile' = [pmFile EXCEPT !.portfolio = pmPortfolio']
    /\ dePortfolio' = [shared |-> FALSE]
    /\ UNCHANGED <<pmTradeHistory, pmToday>>
    /\ UNCHANGED Others

\* what the manager is left with after add_position or reduce_position; both
\* files are written when the trade was made
AfterTrade(answer) ==
    /\ pmOut' = [returned |-> answer.returned]
    /\ pmPortfolio' = answer.portfolio
    /\ pmTradeHistory' = answer.trade_history
    /\ pmFile' = IF answer.returned
                 THEN [portfolio |-> answer.portfolio, trade_history |-> answer.trade_history]
                 ELSE pmFile
    /\ UNCHANGED <<dePortfolio, pmToday>>
    /\ UNCHANGED Others

AddPosition ==
    /\ Len(pmTradeHistory) < MaxTrades
    /\ \E fund_code \in FundCodes, shares \in ShareCounts, price \in Prices :
        /\ pmOp' = "add_position"
        /\ pmArgs' = [fund_code |-> fund_code, shares |-> shares, price |-> price]
        /\ AfterTrade(add_position(pmPortfolio, pmTradeHistory, fund_code,
                                   FundTypeOf[fund_code], shares, price, pmToday))

ReducePosition ==
    /\ Len(pmTradeHistory) < MaxTrades
    /\ \E fund_code \in FundCodes, shares \in ShareCounts, price \in Prices :
        /\ pmOp' = "reduce_position"
        /\ pmArgs' = [fund_code |-> fund_code, shares |-> shares, price |-> price]
        /\ AfterTrade(reduce_position(pmPortfolio, pmTradeHistory, fund_code,
                                      shares, price, pmToday))

UpdatePrices ==
    /\ \E price_dict \in PriceDicts :
        /\ pmOp' = "update_prices"
        /\ pmArgs' = [price_dict |-> price_dict]
        /\ pmPortfolio' = update_prices(pmPortfolio, price_dict)
    /\ pmOut' = <<>>
    /\ pmFile' = [pmFile EXCEPT !.portfolio = pmPortfolio']
    /\ UNCHANGED <<pmTradeHistory, dePortfolio, pmToday>>
    /\ UNCHANGED Others

\* date.today() moves on
NextDay ==
    /\ pmToday < MaxDay
    /\ pmToday' = pmToday + 1
    /\ pmOp' = "midnight"
    /\ pmArgs' = <<>>
    /\ pmOut' = <<>>
    /\ UNCHANGED <<pmPortfolio, pmTradeHistory, pmFile, dePortfolio>>
    /\ UNCHANGED Others

\* get_fund_estimate: an estimate with its nav, or None
Estimates == Prices \cup {NoneV}

\* DecisionEngine._analyze_position on a position of the engine's portfolio:
\* the position takes the latest nav; nothing else of the portfolio is touched
\* and nothing is saved
_analyze_position(portfolio, k, nav_data) ==
    IF nav_data # NoneV
    THEN [portfolio EXCEPT !.positions[k] = Position_update_price(@, nav_data)]
    ELSE portfolio

AnalyzePosition ==
    /\ dePortfolio.shared
    /\ \E k \in DOMAIN pmPortfolio.positions, nav_data \in Estimates :
        /\ pmOp' = "_analyze_position"
        /\ pmArgs' = [fund_code |-> pmPortfolio.positions[k].fund_code, nav_data |-> nav_data]
        /\ pmPortfolio' = _analyze_position(pmPortfolio, k, nav_data)
    /\ pmOut' = <<>>
    /\ UNCHANGED <<pmTradeHistory, pmFile, dePortfolio, pmToday>>
    /\ UNCHANGED Others

\* ... and on the object the engine was handed before initialize_portfolio
\* replaced it: the manager's portfolio is not touched
AnalyzeStalePosition ==
    /\ ~dePortfolio.shared
    /\ pmOp' = "_analyze_position"
    /\ pmArgs' = <<>>
    /\ pmOut' = <<>>
    /\ UNCHANGED <<pmPortfolio, pmTradeHistory, pmFile, dePortfolio, pmToday>>
    /\ UNCHANGED Others

\* InvestmentAdvisor() in a new process: the manager loads both files and the
\* engine is handed the manager's portfolio
NewAdvisor ==
    /\ pmOp' = "InvestmentAdvisor"
    /\ pmArgs' = <<>>
    /\ pmOut' = <<>>
    /\ pmPortfolio' = pmFile.portfolio
    /\ pmTradeHistory' = pmFile.trade_history
    /\ dePortfolio' = [shared |-> TRUE]
    /\ UNCHANGED <<pmFile, pmToday>>
    /\ UNCHANGED Others

NextPM ==
    \/ InitializePortfolio
    \/ AddPosition
    \/ ReducePosition
    \/ UpdatePrices
    \/ AnalyzePosition
    \/ AnalyzeStalePosition
    \/ NewAdvisor

SpecPortfolio == InitPM /\ [][NextPM]_vars

-----------------------------------------------------------------------------
(* src/main.py : buy_fund and sell_fund of the InvestmentAdvisor, with the  *)
(* manager's check_position_limits; ratios are in hundredths                *)

MAX_SINGLE_FUND_POSITION == 20
MAX_CATEGORY_POSITION == 40
MAX_SINGLE_BUY_RATIO == 30
MAX_DAILY_TRADES == 3
BUY_COOLDOWN_DAYS == 7

\* sum(p.market_value for p in self.positions if p.fund_type == fund_type)
CategoryValue(portfolio, fund_type) ==
    LET OfType(p) == p.fund_type = fund_type
    IN  SumMarketValue(SelectSeq(portfolio.positions, OfType))

\* the market value held of the fund, 0 without a position
HeldValue(portfolio, fund_code) ==
    LET k == Portfolio_get_position(portfolio, fund_code)
    IN  IF k = 0 THEN 0 ELSE portfolio.positions[k].market_value

\* get_fund_last_buy_date: None, or the latest day the fund was bought
get_fund_last_buy_date(trade_history, fund_code) ==
    LET days == {trade_history[i].trade_date :
                    i \in {j \in DOMAIN trade_history :
                            /\ trade_history[j].fund_code = fund_code
                            /\ trade_history[j].trade_type = "BUY"}}
    IN  IF days = {} THEN NoneV ELSE CHOOSE d \in days : \A e \in days : e <= d

\* check_position_limits: allowed, and the warnings by what they are about; a
\* ratio is 0 when total_value is not positive
check_position_limits(portfolio, trade_history, fund_code, fund_type, amount, today) ==
    LET total == portfolio.total_value
        single == total > 0 /\
            (HeldValue(portfolio, fund_code) + amount) * 100 > MAX_SINGLE_FUND_POSITION * total
        category == total > 0 /\
            (CategoryValue(portfolio, fund_type) + amount) * 100 > MAX_CATEGORY_POSITION * total
        single_buy == amount * 100 > portfolio.cash * MAX_SINGLE_BUY_RATIO
        daily == Len(get_today_trades(trade_history, today)) >= MAX_DAILY_TRADES
        last_buy == get_fund_last_buy_date(trade_history, fund_code)
        cooldown == last_buy # NoneV /\ today - last_buy < BUY_COOLDOWN_DAYS
        warnings == (IF single THEN {"single_fund"} ELSE {})
                    \cup (IF category THEN {"category"} ELSE {})
                    \cup (IF single_buy THEN {"single_buy"} ELSE {})
    IN  IF daily THEN [allowed |-> FALSE, warnings |-> warnings \cup {"daily_trades"}]
        ELSE [allowed |-> ~single /\ ~category,
              warnings |-> warnings \cup (IF cooldown THEN {"cooldown"} ELSE {})]

\* buy_fund: nav is the estimate's nav, or None when there is no estimate
buy_fund(portfolio, trade_history, fund_code, amount, nav, today) ==
    IF nav = NoneV THEN Answer(FALSE, portfolio, trade_history)
    ELSE LET shares == amount \div nav
             fund_type == FundTypeOf[fund_code]
             check_result == check_position_limits(portfolio, trade_history, fund_code,
                                                   fund_type, amount, today)
         IN  IF ~check_result.allowed THEN Answer(FALSE, portfolio, trade_history)
             ELSE add_position(portfolio, trade_history, fund_code, fund_type,
                               shares, nav, today)

\* sell_fund: shares and ratio may be None; ratio is in hundredths
sell_fund(portfolio, trade_history, fund_code, shares, ratio, nav, today) ==
    LET k == Portfolio_get_position(portfolio, fund_code)
    IN  IF k = 0 THEN Answer(FALSE, portfolio, trade_history)
        ELSE LET position == portfolio.positions[k]
                 sold == IF ratio # NoneV THEN (position.shares * ratio) \div 100
                         ELSE IF shares = NoneV THEN position.shares
                         ELSE shares
                 price == IF nav # NoneV THEN nav ELSE position.current_price
             IN  reduce_position(portfolio, trade_history, fund_code, sold, price, today)

\* the amounts bought: whole shares at every price
BuyAmounts == {2, 4}
SellShares == {NoneV, 1}
SellRatios == {NoneV, 50}

\* the longest trade history the advisor is followed to
AdvisorTrades == MAX_DAILY_TRADES + 1

BuyFund ==
    /\ Len(pmTradeHistory) < AdvisorTrades
    /\ \E fund_code \in FundCodes, amount \in BuyAmounts, nav \in Estimates :
        /\ pmOp' = "buy_fund"
        /\ pmArgs' = [fund_code |-> fund_code, amount |-> amount, nav |-> nav]
        /\ AfterTrade(buy_fund(pmPortfolio, pmTradeHistory, fund_code, amount, nav, pmToday))

\* the shares sold are whole shares
SellFund ==
    /\ Len(pmTradeHistory) < AdvisorTrades
    /\ \E fund_code \in FundCodes, shares \in SellShares, ratio \in SellRatios,
          nav \in Estimates :
        /\ LET k == Portfolio_get_position(pmPortfolio, fund_code)
           IN  (k # 0 /\ ratio # NoneV) => (pmPortfolio.positions[k].shares * ratio) % 100 = 0
        /\ pmOp' = "sell_fund"
        /\ pmArgs' = [fund_code |-> fund_code, shares |-> shares, ratio |-> ratio, nav |-> nav]
        /\ AfterTrade(sell_fund(pmPortfolio, pmTradeHistory, fund_code, shares, ratio,
                                nav, pmToday))

NextIA ==
    \/ InitializePortfolio
    \/ BuyFund
    \/ SellFund
    \/ NextDay

SpecAdvisor == InitPM /\ [][NextIA]_vars

-----------------------------------------------------------------------------
(* Claims about the portfolio, checked under SpecPortfolio *)

\* C27: the cash is never negative, and an add_position whose amount exceeds
\* the cash returns False and leaves cash, positions, total_value and
\* trade_history as they were
C27_CashNeverNegative ==
    /\ [](pmPortfolio.cash >= 0)
    /\ [][(pmOp' = "add_position"
             /\ pmArgs'.shares * pmArgs'.price > pmPortfolio.cash)
            => (/\ pmOut'.returned = FALSE
                /\ pmPortfolio' = pmPortfolio
                /\ pmTradeHistory' = pmTradeHistory)]_vars

\* an add_position beyond the cash has been turned down on a portfolio that
\* holds a position and some cash
C27_Witness ==
    /\ pmOp = "add_position"
    /\ ~pmOut.returned
    /\ pmPortfolio.cash > 0
    /\ Len(pmPortfolio.positions) > 0
    /\ pmArgs.shares * pmArgs.price > pmPortfolio.cash

\* C28: in every state the manager's operations and the engine's position
\* analysis lead to, total_value is the cash plus the market value of the
\* positions, and every position holds shares
C28_ValuationConsistent ==
    /\ pmPortfolio.total_value = pmPortfolio.cash + SumMarketValue(pmPortfolio.positions)
    /\ \A k \in DOMAIN pmPortfolio.positions : pmPortfolio.positions[k].shares > 0

-----------------------------------------------------------------------------
(* Claim about the advisor, checked under SpecAdvisor *)

\* C30: whatever buy_fund and sell_fund calls are made, no day has more than
\* MAX_DAILY_TRADES trade records, and a buy_fund attempted when the day's
\* count has reached the limit returns False and changes neither the
\* portfolio nor the trade history
C30_DailyTradeLimit ==
    /\ [](\A day \in 0..MaxDay :
            Len(get_today_trades(pmTradeHistory, day)) <= MAX_DAILY_TRADES)
    /\ [][(pmOp' = "buy_fund"
             /\ Len(get_today_trades(pmTradeHistory, pmToday)) >= MAX_DAILY_TRADES)
            => (/\ pmOut'.returned = FALSE
                /\ pmPortfolio' = pmPortfolio
                /\ pmTradeHistory' = pmTradeHistory)]_vars

-----------------------------------------------------------------------------
(* src/decision/risk_control.py : the RiskController and its circuit       *)
(* breaker; changes are in hundredths of a percent, time is in hours        *)

market_crash == 0 - 500
market_drop == 0 - 200
breaker_hours == 24

NoBreaker == [active |-> FALSE, reason |-> "", until |-> NoneV]

\* mutant: the breaker is not switched on
_trigger_circuit_breaker_off(reason, hours, now) == NoBreaker

_trigger_circuit_breaker(reason, hours, now) ==
    [active |-> TRUE, reason |-> reason, until |-> now + hours]

_reset_circuit_breaker == NoBreaker

\* _check_market_risk: the result, and the breaker it leaves
_check_market_risk(breaker, hs300_change, now) ==
    IF hs300_change < market_crash
    THEN [has_risk |-> TRUE, severity |-> "high", message |-> "market_crash",
          breaker |-> _trigger_circuit_breaker("market_crash", breaker_hours, now)]
    ELSE IF hs300_change < market_drop
    THEN [has_risk |-> TRUE, severity |-> "medium", message |-> "market_drop",
          breaker |-> breaker]
    ELSE [has_risk |-> FALSE, severity |-> "low", message |-> "", breaker |-> breaker]

\* check_all_risks; market_summary is None or the day's hs300_change, and
\* trade_blockers is what _check_buy_risks or _check_sell_risks finds in the
\* portfolio against the suggestion
check_all_risks(breaker, signal, confidence, market_summary, trade_blockers, now) ==
    IF breaker.active /\ breaker.until # NoneV /\ now < breaker.until
    THEN [is_allowed |-> FALSE, warnings |-> {}, blockers |-> {"circuit_breaker"},
          breaker |-> breaker]
    ELSE LET reset == IF breaker.active THEN _reset_circuit_breaker ELSE breaker
             market_check == IF market_summary # NoneV
                             THEN _check_market_risk(reset, market_summary, now)
                             ELSE [has_risk |-> FALSE, severity |-> "low", message |-> "",
                                   breaker |-> reset]
             blockers == (IF market_check.has_risk /\ market_check.severity = "high"
                          THEN {market_check.message} ELSE {})
                         \cup (IF signal \in {"BUY", "SELL"} THEN trade_blockers ELSE {})
             warnings == (IF market_check.has_risk /\ market_check.severity # "high"
                          THEN {market_check.message} ELSE {})
                         \cup (IF confidence < 3 THEN {"low_confidence"} ELSE {})
         IN  [is_allowed |-> blockers = {}, warnings |-> warnings, blockers |-> blockers,
              breaker |-> market_check.breaker]

MaxClock == 30
Signals == {"BUY", "SELL", "HOLD", "WATCH"}
Confidences == {2, 3}
MarketSummaries == {NoneV, 0 - 600, 0 - 500, 0 - 300, 0}
TradeBlockers == {{}, {"trade"}}

\* RiskController(portfolio)
InitRC ==
    /\ IdlePF /\ IdleFC /\ IdleSC /\ IdleWF /\ IdleGF /\ IdleRA /\ IdlePM
    /\ rcOp = "RiskController"
    /\ rcArgs = <<>>
    /\ rcOut = <<>>
    /\ rcBreaker = NoBreaker
    /\ rcNow = 0

CheckAllRisks ==
    /\ \E signal \in Signals, confidence \in Confidences,
          market_summary \in MarketSummaries, trade_blockers \in TradeBlockers :
        LET result == check_all_risks(rcBreaker, signal, confidence, market_summary,
                                      trade_blockers, rcNow)
        IN  /\ rcOp' = "check_all_risks"
            /\ rcArgs' = [signal |-> signal, confidence |-> confidence,
                          market_summary |-> market_summary,
                          trade_blockers |-> trade_blockers]
            /\ rcOut' = [is_allowed |-> result.is_allowed, warnings |-> result.warnings,
                         blockers |-> result.blockers]
            /\ rcBreaker' = result.breaker
    /\ UNCHANGED rcNow
    /\ UNCHANGED <<pfVars, fcVars, scVars, wfVars, gfVars, raVars, pmVars>>

\* an hour passes
Tick ==
    /\ rcNow < MaxClock
    /\ rcNow' = rcNow + 1
    /\ rcOp' = "tick"
    /\ rcArgs' = <<>>
    /\ rcOut' = <<>>
    /\ UNCHANGED rcBreaker
    /\ UNCHANGED <<pfVars, fcVars, scVars, wfVars, gfVars, raVars, pmVars>>

NextRC ==
    \/ CheckAllRisks
    \/ Tick

SpecRiskControl == InitRC /\ [][NextRC]_vars

-----------------------------------------------------------------------------
(* Claim about the circuit breaker, checked under SpecRiskControl *)

Tripped == rcBreaker.active /\ rcNow < rcBreaker.until
SeesCrash == rcArgs'.market_summary # NoneV /\ rcArgs'.market_summary < market_crash
Blocked == ~rcOut'.is_allowed /\ rcOut'.blockers # {}

====
